---- MODULE Spec2Model ----
(***************************************************************************)
(* Verification model of the X-Automation post engine: the retry           *)
(* orchestrator (postTweetWithRetry), the multi-strategy submit            *)
(* (postTweetWithButton), the content generator's length clamp and the     *)
(* diversity guard (checkContentDiversity).                                *)
(***************************************************************************)
EXTENDS Integers, Sequences, FiniteSets, TLC

\* ------------------------------------------------------------------ bounds
\* largest maxRetries argument handed to postTweetWithRetry
MaxRetriesBound == 4
\* longest tweet text typed by the submit operation
MaxPostLen == 2

\* longest run of whitespace around a generated text
MaxWs == 1
\* longest run of quote characters around a generated text
MaxQuotes == 2
\* longest generated text between the quotes
MaxBodyLen == 283

\* most copies of the filler document in the ContentLog collection
MaxFiller == 21
\* most other documents in the ContentLog collection
MaxExtra == 1

\* most store operations in a sequence of session saves and lookups
MaxStoreOps == 4

\* most trending topics a discovery returns
MaxTrends == 2
\* most trend elements on the rendered trending page
MaxElements == 17
\* most calls of getTrendingTopicsWithContext against one page
MaxCalls == 2
\* most items on the notifications surface
MaxNotifications == 4
\* most child processes the control server spawns
MaxChildren == 3
\* largest POSTS_TO_DO handed to the process
MaxPostsToDo == 2
\* most passes of scrollFeed in a whole run of the engagement script
MaxScrolls == 3
\* most passes of scrollFeed followed on their own
MaxPasses == 100
\* most unliked like buttons in view
MaxButtons == 3

\* ------------------------------------------------------- program constants
\* the lookback window of the diversity query, in hours
WindowHours == 24
\* the `.limit(20)` of the diversity query
QueryLimit == 20
\* CONFIG.automation.similarityThreshold, 0.7, as a fraction
ThresholdNum == 7
ThresholdDen == 10
\* the platform's post-length ceiling in `content.length > 280`
TweetLimit == 280
\* the characters kept by `content.substring(0, 277)`
KeepLen == 277
\* CONFIG.automation.maxRetries
ConfigMaxRetries == 3
\* number of entries of textareaSelectors
NumSelectors == 4

VARIABLES
  \* postTweetWithRetry
  maxRetries,     \* the maxRetries argument
  attempt,        \* the loop counter
  rpc,            \* "loop" (between attempts), "submit" (awaiting the submit), "done"
  retVal,         \* "pending", "true", "false"
  calls,          \* number of invocations of the submit operation so far
  outcomes,       \* outcome of each finished attempt: "true", "false", "throws"
  contentLog,     \* ContentLog documents created by this call
  errorLog,       \* ErrorLog documents created by this call
  csvRows,        \* rows appended to the CSV by this call
  writeRejected,  \* a ContentLog.create of this call was rejected by the store
  shadow,         \* the same call replayed with every "throws" replaced by "false"
  \* postTweetWithButton
  postLen,        \* tweetContent.length
  spc,            \* position inside the submit
  selIdx,         \* index of the compose-box selector being probed
  textarea,       \* 0 (null) or the index of the selector that matched
  typed,          \* characters typed so far
  clickTried,     \* click methods attempted, in order
  clickedVia,     \* "none" or the method that set clicked = true
  verified,       \* "none", "yes", "no": result of verifyTweetPosted
  shot,           \* "none", "saved", "failed": the diagnostic screenshot
  sret,           \* "pending", "true", "false", "raised": how the submit ended
  failedAt,       \* "none" or the step of the submit that raised
  script,         \* which submit runs: "enhanced", "postjsEnter", "postjsButton"
  \* generatePostWithOpenRouter / generateAIComment
  response,       \* what the text-generation service answered
  genFn,          \* "none", "post", "comment": the generator that ran
  genOut,         \* its result: [isNull, text]
  \* checkContentDiversity
  history,        \* the ContentLog collection: documents in it, with multiplicity
  newPost,        \* the candidate text
  lookupOk,       \* whether ContentLog.find resolved
  recentPosts,    \* the documents the query returned, with multiplicity
  divOut,         \* "none", "true", "false", "raised"
  \* main (the single-cycle run) and the Session collection
  mpc,            \* position inside main
  envOk,          \* every required environment variable is set
  storeUp,        \* mongoose.connect can reach the store
  postsToDo,      \* POSTS_TO_DO, the number of cycles asked for
  cycles,         \* generate-and-post cycles carried through so far
  browser,        \* "none", "open", "closed": the browser main holds
  exitCode,       \* "none" while the process lives, else its exit status "0", "1"
  sessions,       \* the Session collection: a set of documents
  clock,          \* the store's time, for updatedAt
  existingSession,\* what loadSessionFromDB returned to main
  pageSession,    \* cookies and storage the browser page holds
  freshLogin,     \* what the page held after the login succeeded
  trends,         \* number of trending topics discovered
  usedTopics,     \* usedTopics: indices of the topics selected so far
  postData,       \* 0 (none) or the generation call whose text is to be posted
  trace,          \* what the run did so far, in order
  useProxy,       \* useProxy of automateTwitter
  scrollAttempts, \* scrollAttempts of scrollFeed
  likedPostLinks, \* likes clicked in this pass whose CSV row is not yet written
  cancelAt,       \* -1, or scrollAttempts when a stop of the process was requested
  apiKey,         \* whether CONFIG.openrouter.apiKey is set
  feed,           \* "mixed", or "allLiked": no unliked post on the page
  passOps,        \* what the current pass of scrollFeed attempted so far
  openBrowsers,   \* browsers the process launched and did not close
  \* likeRandomPosts on its own
  likeArgs,       \* the page, the percentage and what happened during the call
  result,         \* the record likeRandomPosts returned
  \* loginToTwitter on its own
  loginPc,        \* position inside loginToTwitter
  loginLog,       \* the steps of the login carried out so far, with their outcomes
  currentUrl,     \* page.url() as read after the password was submitted
  loginReturned,  \* what loginToTwitter returned
  \* getTrendingTopicsWithContext on its own
  trendPage,      \* the trend elements of the rendered page: their trend texts
  trendCalls,     \* one record per call made against that page
  \* checkAndReplyToNotifications on its own
  notifPc,        \* position inside checkAndReplyToNotifications
  surface,        \* what the page shows: "home", "notifications", "thread"
  replyIndices,   \* what getReplyNotifications returned
  notifLog,       \* the replyToNotification calls made so far
  repliedCount,   \* repliedCount
  notifResult,    \* what checkAndReplyToNotifications returned
  \* the control server, post automation
  postAutomationProcess, \* 0 (null) or the child the server refers to
  children,       \* per child: "unborn", "alive", "dead", "reaped", and .killed
  timers,         \* stop requests whose 2 s timer is pending: the child stopped
  fired,          \* stop requests whose timer has run
  kills,          \* SIGKILLs sent: [from: the child stopped, to: the child hit]
  lastStatus      \* HTTP status of the last response, 0 before any

retryVars == <<maxRetries, attempt, rpc, retVal, calls, outcomes, contentLog,
               errorLog, csvRows, writeRejected, shadow>>
submitVars == <<postLen, spc, selIdx, textarea, typed, clickTried, clickedVia,
                verified, shot, sret, failedAt, script>>
genVars == <<response, genFn, genOut>>
divVars == <<history, newPost, lookupOk, recentPosts, divOut>>
runVars == <<mpc, envOk, storeUp, postsToDo, cycles, browser, exitCode, sessions,
             clock, existingSession, pageSession, freshLogin, trends, usedTopics,
             postData, trace>>
engVars == <<useProxy, scrollAttempts, likedPostLinks, cancelAt, apiKey, feed,
             passOps, openBrowsers>>
likeVars == <<likeArgs, result>>
loginVars == <<loginPc, loginLog, currentUrl, loginReturned>>
trendVars == <<trendPage, trendCalls>>
notifVars == <<notifPc, surface, replyIndices, notifLog, repliedCount, notifResult>>
srvVars == <<postAutomationProcess, children, timers, fired, kills, lastStatus>>
fn2Vars == <<notifVars, srvVars>>
fnVars == <<likeVars, loginVars, trendVars, fn2Vars>>
restVars == <<engVars, fnVars>>
runVars_butMpc == <<envOk, storeUp, postsToDo, cycles, browser, exitCode, sessions,
                   clock, existingSession, pageSession, freshLogin, trends,
                   usedTopics, postData, trace>>
ctlVars == <<runVars, restVars>>
vars == <<retryVars, submitVars, genVars, divVars, ctlVars>>

\* the variables each part of the program leaves alone
notPost == <<genVars, divVars, ctlVars>>
notGen == <<retryVars, submitVars, divVars, ctlVars>>
notDiv == <<retryVars, submitVars, genVars, ctlVars>>

\* the generator and the diversity guard before they ran
NoText == [isNull |-> TRUE, text |-> <<>>]
NoShape == [lw |-> 0, lq |-> 0, qc |-> "dq", n |-> 0, tq |-> 0, tw |-> 0]
NoResponse == [kind |-> "none", content |-> <<>>, shape |-> NoShape]
IdleGen == response = NoResponse /\ genFn = "none" /\ genOut = NoText
EmptyBag == [k \in {} |-> 0]
IdleDiv ==
  /\ history = EmptyBag /\ newPost = <<>> /\ lookupOk = TRUE
  /\ recentPosts = EmptyBag /\ divOut = "none"

\* main before it ran, with an empty Session collection
NoDoc == [accountEmail |-> "", cookies |-> {}, localStorage |-> {},
          sessionStorage |-> {}, updatedAt |-> 0]
NoSession == [found |-> FALSE, doc |-> NoDoc]
NoPage == [cookies |-> {}, localStorage |-> {}, sessionStorage |-> {}]
IdleRun ==
  /\ mpc = "idle" /\ envOk = TRUE /\ storeUp = TRUE /\ postsToDo = 1 /\ cycles = 0
  /\ browser = "none" /\ exitCode = "none"
  /\ sessions = {} /\ clock = 0 /\ existingSession = NoSession
  /\ pageSession = NoPage /\ freshLogin = NoPage
  /\ trends = 0 /\ usedTopics = {} /\ postData = 0 /\ trace = <<>>

\* the engagement script not yet started
IdleEngage ==
  /\ useProxy = FALSE /\ scrollAttempts = 0 /\ likedPostLinks = 0 /\ cancelAt = -1
  /\ apiKey = TRUE /\ feed = "mixed" /\ passOps = {} /\ openBrowsers = 0

\* the functions checked on their own not yet called
NoLikeArgs == [visible |-> 0, likePercentage |-> 0, draw |-> 0, fault |-> "none",
               stillVisible |-> FALSE, hasLink |-> FALSE, called |-> FALSE]
NoLikeResult == [liked |-> 0, available |-> 0, likedPostLinks |-> 0, error |-> FALSE]
IdleLike == likeArgs = NoLikeArgs /\ result = NoLikeResult

NoUrl == <<>>
IdleLogin ==
  loginPc = "idle" /\ loginLog = <<>> /\ currentUrl = NoUrl /\ loginReturned = FALSE

IdleTrends == trendPage = <<>> /\ trendCalls = <<>>

NoNotifResult == [checked |-> FALSE, replied |-> 0]
IdleNotif ==
  /\ notifPc = "idle" /\ surface = "home" /\ replyIndices = <<>>
  /\ notifLog = <<>> /\ repliedCount = 0 /\ notifResult = NoNotifResult

NoChild == [state |-> "unborn", killed |-> FALSE, answered |-> FALSE]
IdleServer ==
  /\ postAutomationProcess = 0 /\ children = [c \in 1..MaxChildren |-> NoChild]
  /\ timers = {} /\ fired = {} /\ kills = {} /\ lastStatus = 0

IdleFn2 == IdleNotif /\ IdleServer

IdleFn == IdleLike /\ IdleLogin /\ IdleTrends /\ IdleFn2

IdleRest == IdleEngage /\ IdleFn

IdleControl == IdleRun /\ IdleRest

\* ------------------------------------------------------------ log writers
Last(s) == s[Len(s)]

SuccessEntry_zeroBased(len, retryCount) ==
  [success |-> TRUE, retryCount |-> retryCount - 1, postLength |-> len]

\* the document logSuccessfulPost hands to ContentLog.create
SuccessEntry(len, retryCount) ==
  [success |-> TRUE, retryCount |-> retryCount, postLength |-> len]

\* the document logFailedPost hands to ContentLog.create
FailureEntry(len) ==
  [success |-> FALSE, retryCount |-> ConfigMaxRetries, postLength |-> len]

\* outcomes of the store writes of one log call: "ok", the ContentLog.create
\* rejects, or (logFailedPost only) the ErrorLog.create rejects
DbOutcomes == {"ok", "contentRejected", "errorRejected"}

\* logSuccessfulPost: ContentLog.create, then the CSV row; any error swallowed
logSuccessfulPost(logs, len, retryCount, db, csvOk) ==
  IF db = "contentRejected"
    THEN [logs EXCEPT !.rejected = TRUE]
    ELSE [logs EXCEPT
            !.content = Append(@, SuccessEntry(len, retryCount)),
            !.csv = IF csvOk
                      THEN Append(@, [success |-> TRUE, retryCount |-> retryCount])
                      ELSE @]

\* logFailedPost: ContentLog.create, ErrorLog.create, then the CSV row
logFailedPost(logs, len, db, csvOk) ==
  IF db = "contentRejected"
    THEN [logs EXCEPT !.rejected = TRUE]
    ELSE IF db = "errorRejected"
      THEN [logs EXCEPT !.content = Append(@, FailureEntry(len))]
      ELSE [logs EXCEPT
              !.content = Append(@, FailureEntry(len)),
              !.error = Append(@, [errorType |-> "POST_FAILED"]),
              !.csv = IF csvOk
                        THEN Append(@, [success |-> FALSE,
                                        retryCount |-> ConfigMaxRetries])
                        ELSE @]

NoLogs == [content |-> <<>>, error |-> <<>>, csv |-> <<>>, rejected |-> FALSE]

\* ------------------------------------------------------ postTweetWithRetry
Outcomes == {"true", "false", "throws"}

LoopTest_offByOne(att, n) == att <= n + 1

\* the loop condition `attempt <= maxRetries`
LoopTest(att, n) == att <= n

\* what the body of the retry loop does once the attempt ended with `outcome`:
\* success logs and returns true; a false result (after a delay when attempts
\* remain) goes on to the next iteration; an exception logs the failure and
\* returns false on the last attempt, and otherwise goes on after a delay
AfterAttempt(att, n, outcome) ==
  IF outcome = "true" THEN [next |-> "returnTrue", log |-> "success"]
  ELSE IF outcome = "false" THEN [next |-> "continue", log |-> "none"]
  ELSE IF att = n THEN [next |-> "returnFalse", log |-> "failure"]
  ELSE [next |-> "continue", log |-> "none"]

\* the orchestrator's state after the attempt of state `st` ended with
\* `outcome`: the loop body, then `attempt++` and the loop test; a failed test
\* leaves the loop for the final `return false`
RetryIteration(st, outcome, len, db, csvOk) ==
  LET d == AfterAttempt(st.attempt, st.maxRetries, outcome)
      lg == IF d.log = "success"
              THEN logSuccessfulPost(st.logs, len, st.attempt, db, csvOk)
            ELSE IF d.log = "failure"
              THEN logFailedPost(st.logs, len, db, csvOk)
            ELSE st.logs
      again == d.next = "continue" /\ LoopTest(st.attempt + 1, st.maxRetries)
  IN [st EXCEPT
        !.logs = lg,
        !.outcomes = Append(@, outcome),
        !.attempt = IF d.next = "continue" THEN @ + 1 ELSE @,
        !.rpc = IF again THEN "loop" ELSE "done",
        !.retVal = IF d.next = "returnTrue" THEN "true"
                   ELSE IF again THEN @ ELSE "false"]

\* the orchestrator's variables as one record, and back
RetryState ==
  [maxRetries |-> maxRetries, attempt |-> attempt, rpc |-> rpc, retVal |-> retVal,
   calls |-> calls, outcomes |-> outcomes,
   logs |-> [content |-> contentLog, error |-> errorLog, csv |-> csvRows,
             rejected |-> writeRejected]]

SetRetryState(st) ==
  /\ attempt' = st.attempt
  /\ rpc' = st.rpc
  /\ retVal' = st.retVal
  /\ calls' = st.calls
  /\ outcomes' = st.outcomes
  /\ contentLog' = st.logs.content
  /\ errorLog' = st.logs.error
  /\ csvRows' = st.logs.csv
  /\ writeRejected' = st.logs.rejected
  /\ UNCHANGED maxRetries

InitialRetryState(n) ==
  [maxRetries |-> n, attempt |-> 1, rpc |-> "loop", retVal |-> "pending",
   calls |-> 0, outcomes |-> <<>>, logs |-> NoLogs]

\* the loop test on entry, followed by the call of the submit operation
BeginAttempt(st) ==
  IF LoopTest(st.attempt, st.maxRetries)
    THEN [st EXCEPT !.calls = @ + 1, !.rpc = "submit"]
    ELSE [st EXCEPT !.rpc = "done", !.retVal = "false"]

Normalised(outcome) == IF outcome = "throws" THEN "false" ELSE outcome

\* ---------------------------------------------------------------------
\* SpecRetry: postTweetWithRetry with an injected submit operation whose
\* outcome per attempt is any of true / false / throws.
\* ---------------------------------------------------------------------
IdleSubmit ==
  /\ spc = "idle" /\ selIdx = 1 /\ textarea = 0 /\ typed = 0
  /\ clickTried = <<>> /\ clickedVia = "none" /\ verified = "none"
  /\ shot = "none" /\ sret = "pending" /\ failedAt = "none"
  /\ script = "enhanced"

\* postTweetWithRetry not yet called, with the default maxRetries
IdleRetry ==
  /\ maxRetries = ConfigMaxRetries
  /\ attempt = 1 /\ rpc = "loop" /\ retVal = "pending"
  /\ calls = 0 /\ outcomes = <<>>
  /\ contentLog = <<>> /\ errorLog = <<>> /\ csvRows = <<>>
  /\ writeRejected = FALSE
  /\ shadow = InitialRetryState(maxRetries)
  /\ postLen = 0

InitRetry ==
  /\ maxRetries \in 1..MaxRetriesBound
  /\ attempt = 1 /\ rpc = "loop" /\ retVal = "pending"
  /\ calls = 0 /\ outcomes = <<>>
  /\ contentLog = <<>> /\ errorLog = <<>> /\ csvRows = <<>>
  /\ writeRejected = FALSE
  /\ shadow = InitialRetryState(maxRetries)
  /\ postLen \in 0..MaxPostLen
  /\ IdleSubmit
  /\ IdleGen /\ IdleDiv /\ IdleControl

\* one attempt of the loop, from the loop test to the end of the iteration
Attempt(outcome) ==
  /\ rpc = "loop"
  /\ \E db \in DbOutcomes, csvOk \in BOOLEAN :
       /\ SetRetryState(
            LET b == BeginAttempt(RetryState)
            IN IF b.rpc = "submit"
                 THEN RetryIteration(b, outcome, postLen, db, csvOk) ELSE b)
       /\ shadow' =
            IF shadow.rpc = "loop"
              THEN LET b == BeginAttempt(shadow)
                   IN IF b.rpc = "submit"
                        THEN RetryIteration(b, Normalised(outcome), postLen, db, csvOk)
                        ELSE b
              ELSE shadow
  /\ UNCHANGED submitVars
  /\ UNCHANGED notPost

AttemptSucceeds == Attempt("true")
AttemptFails == Attempt("false")
AttemptThrows == Attempt("throws")

NextRetry == AttemptSucceeds \/ AttemptFails \/ AttemptThrows

SpecRetry == InitRetry /\ [][NextRetry]_vars

\* ---------------------------------------------------------------------
\* Spec: the posting step of the retrying script, postTweetWithRetry with
\* the default maxRetries driving postTweetWithButton step by step.
\* ---------------------------------------------------------------------
ClickOrder == <<"native", "evaluate", "coordinate">>

AfterClick_noGuard(method, ok) ==
  IF method = "native" THEN "evaluate"
  ELSE IF method = "evaluate" THEN "coordinate"
  ELSE IF ok THEN "verify" ELSE "catch"

\* where the submit goes after a click method ended: the `if (!clicked)` guards
\* skip the remaining methods once one did not raise, and `if (!clicked) throw`
\* sends the submit to its catch block when none succeeded
AfterClick(method, ok) ==
  IF ok THEN "verify"
  ELSE IF method = "native" THEN "evaluate"
  ELSE IF method = "evaluate" THEN "coordinate"
  ELSE "catch"

\* what the page can show to verifyTweetPosted
VerifyOutcomes == {"cleared", "evaluateRaised", "gotoRaised", "found", "notFound"}

\* verifyTweetPosted: true when the compose box is cleared or the text is found
\* in the timeline; false otherwise, also on any exception
verifyTweetPosted(page) == page \in {"cleared", "found"}

ReturnAfterVerify_strict(isVerified) == IF isVerified THEN "true" ELSE "false"

\* the value postTweetWithButton returns once a click went through: true in
\* both branches of `if (verified)`
ReturnAfterVerify(isVerified) == IF isVerified THEN "true" ELSE "true"

CatchHandler_rethrow(shotOk) ==
  [shot |-> IF shotOk THEN "saved" ELSE "failed",
   ret |-> IF shotOk THEN "false" ELSE "raised"]

\* the catch block of postTweetWithButton: a screenshot inside its own
\* try/catch, then `return false`
CatchHandler(shotOk) ==
  [shot |-> IF shotOk THEN "saved" ELSE "failed", ret |-> "false"]

Init ==
  /\ maxRetries = ConfigMaxRetries
  /\ attempt = 1 /\ rpc = "loop" /\ retVal = "pending"
  /\ calls = 0 /\ outcomes = <<>>
  /\ contentLog = <<>> /\ errorLog = <<>> /\ csvRows = <<>>
  /\ writeRejected = FALSE
  /\ shadow = InitialRetryState(maxRetries)
  /\ postLen \in 0..MaxPostLen
  /\ IdleSubmit
  /\ IdleGen /\ IdleDiv /\ IdleControl

\* a step of the submit that either completes or raises into the catch block
SubmitStep(at, next, step) ==
  /\ rpc = "submit" /\ spc = at
  /\ \E ok \in BOOLEAN :
       /\ spc' = IF ok THEN next ELSE "catch"
       /\ failedAt' = IF ok THEN failedAt ELSE step

\* postTweetWithRetry: the loop test and the call of postTweetWithButton
CallSubmit ==
  /\ rpc = "loop"
  /\ SetRetryState(BeginAttempt(RetryState))
  /\ spc' = IF LoopTest(attempt, maxRetries) THEN "goto" ELSE "idle"
  /\ selIdx' = 1 /\ textarea' = 0 /\ typed' = 0
  /\ clickTried' = <<>> /\ clickedVia' = "none" /\ verified' = "none"
  /\ shot' = "none" /\ sret' = "pending" /\ failedAt' = "none"
  /\ UNCHANGED <<shadow, postLen, script>>
  /\ UNCHANGED notPost

\* page.goto(home)
SubmitGoto ==
  /\ script = "enhanced"
  /\ SubmitStep("goto", "probe", "goto")
  /\ UNCHANGED <<retryVars, postLen, selIdx, textarea, typed, clickTried,
                 clickedVia, verified, shot, sret, script>>
  /\ UNCHANGED notPost

\* one waitForSelector of the compose-box probe loop
SubmitProbe ==
  /\ script = "enhanced"
  /\ rpc = "submit" /\ spc = "probe"
  /\ \E visible \in BOOLEAN :
       IF visible
         THEN /\ textarea' = selIdx /\ spc' = "focus"
              /\ UNCHANGED <<selIdx, failedAt>>
         ELSE IF selIdx < NumSelectors
           THEN /\ selIdx' = selIdx + 1
                /\ UNCHANGED <<textarea, spc, failedAt>>
           ELSE /\ spc' = "catch" /\ failedAt' = "probe"
                /\ UNCHANGED <<selIdx, textarea>>
  /\ UNCHANGED <<retryVars, postLen, typed, clickTried, clickedVia, verified,
                 shot, sret, script>>
  /\ UNCHANGED notPost

\* clearing the compose box and textarea.click()
SubmitFocus ==
  /\ script = "enhanced"
  /\ SubmitStep("focus", "type", "focus")
  /\ UNCHANGED <<retryVars, postLen, selIdx, textarea, typed, clickTried,
                 clickedVia, verified, shot, sret, script>>
  /\ UNCHANGED notPost

\* page.keyboard.type of one character
SubmitType ==
  /\ script = "enhanced"
  /\ typed < postLen
  /\ SubmitStep("type", "type", "type")
  /\ typed' = IF spc' = "type" THEN typed + 1 ELSE typed
  /\ UNCHANGED <<retryVars, postLen, selIdx, textarea, clickTried, clickedVia,
                 verified, shot, sret, script>>
  /\ UNCHANGED notPost

\* waiting for the Post button, enabling it and scrolling it into view
SubmitFindButton ==
  /\ script = "enhanced"
  /\ typed = postLen
  /\ SubmitStep("type", "native", "button")
  /\ UNCHANGED <<retryVars, postLen, selIdx, textarea, typed, clickTried,
                 clickedVia, verified, shot, sret, script>>
  /\ UNCHANGED notPost

\* one click method: it is recorded as tried, sets clicked when it went through
Click(method, ok) ==
  /\ script = "enhanced"
  /\ rpc = "submit" /\ spc = method
  /\ clickTried' = Append(clickTried, [method |-> method, ok |-> ok])
  /\ clickedVia' = IF ok THEN method ELSE clickedVia
  /\ spc' = AfterClick(method, ok)
  /\ failedAt' = IF spc' = "catch" THEN "click" ELSE failedAt
  /\ UNCHANGED <<retryVars, postLen, selIdx, textarea, typed, verified, shot,
                 sret, script>>
  /\ UNCHANGED notPost

\* page.$eval(selector, element => element.click())
ClickNative == \E ok \in BOOLEAN : Click("native", ok)

\* page.evaluate(selector => button.click())
ClickEvaluate == \E ok \in BOOLEAN : Click("evaluate", ok)

\* page.$, boundingBox, page.mouse.click: no element or no box leaves clicked
\* false without raising
ClickCoordinate ==
  \E r \in {"clicked", "raised", "noElement", "noBox"} :
     Click("coordinate", r = "clicked")

\* the settle delay, verifyTweetPosted and the return value
SubmitVerify ==
  /\ script = "enhanced"
  /\ rpc = "submit" /\ spc = "verify"
  /\ \E page \in VerifyOutcomes :
       /\ verified' = IF verifyTweetPosted(page) THEN "yes" ELSE "no"
       /\ sret' = ReturnAfterVerify(verifyTweetPosted(page))
  /\ spc' = "ret"
  /\ UNCHANGED <<retryVars, postLen, selIdx, textarea, typed, clickTried,
                 clickedVia, shot, failedAt, script>>
  /\ UNCHANGED notPost

\* the catch block
SubmitCatch ==
  /\ script = "enhanced"
  /\ rpc = "submit" /\ spc = "catch"
  /\ \E shotOk \in BOOLEAN :
       /\ shot' = CatchHandler(shotOk).shot
       /\ sret' = CatchHandler(shotOk).ret
  /\ spc' = "ret"
  /\ UNCHANGED <<retryVars, postLen, selIdx, textarea, typed, clickTried,
                 clickedVia, verified, failedAt, script>>
  /\ UNCHANGED notPost

\* postTweetWithRetry resumes with the result of the submit
SubmitReturns ==
  /\ rpc = "submit" /\ spc = "ret"
  /\ \E db \in DbOutcomes, csvOk \in BOOLEAN :
       SetRetryState(RetryIteration(RetryState,
                                    IF sret = "raised" THEN "throws" ELSE sret,
                                    postLen, db, csvOk))
  /\ spc' = "idle"
  /\ UNCHANGED <<shadow, postLen, selIdx, textarea, typed, clickTried,
                 clickedVia, verified, shot, sret, failedAt, script>>
  /\ UNCHANGED notPost

Next ==
  \/ CallSubmit
  \/ SubmitGoto
  \/ SubmitProbe
  \/ SubmitFocus
  \/ SubmitType
  \/ SubmitFindButton
  \/ ClickNative
  \/ ClickEvaluate
  \/ ClickCoordinate
  \/ SubmitVerify
  \/ SubmitCatch
  \/ SubmitReturns

Spec == Init /\ [][Next]_vars

\* ---------------------------------------------------------------------
\* SpecPostJs: the posting step of post.js, postTweetWithEnter followed,
\* when it returns false, by the fallback postTweetWithButton of post.js.
\* retVal is `posted`, calls counts the submit functions called.
\* ---------------------------------------------------------------------
InitPostJs ==
  /\ maxRetries = 1 /\ attempt = 1 /\ rpc = "submit" /\ retVal = "pending"
  /\ calls = 1 /\ outcomes = <<>>
  /\ contentLog = <<>> /\ errorLog = <<>> /\ csvRows = <<>>
  /\ writeRejected = FALSE
  /\ shadow = InitialRetryState(maxRetries)
  /\ postLen \in 0..MaxPostLen
  /\ spc = "goto" /\ selIdx = 1 /\ textarea = 0 /\ typed = 0
  /\ clickTried = <<>> /\ clickedVia = "none" /\ verified = "none"
  /\ shot = "none" /\ sret = "pending" /\ failedAt = "none"
  /\ script = "postjsEnter"
  /\ IdleGen /\ IdleDiv /\ IdleControl

\* postTweetWithEnter: page.goto(home)
EnterGoto ==
  /\ script = "postjsEnter"
  /\ SubmitStep("goto", "probe", "goto")
  /\ UNCHANGED <<retryVars, postLen, selIdx, textarea, typed, clickTried,
                 clickedVia, verified, shot, sret, script>>
  /\ UNCHANGED notPost

\* postTweetWithEnter: one waitForSelector of the compose-box probe loop
EnterProbe ==
  /\ script = "postjsEnter"
  /\ rpc = "submit" /\ spc = "probe"
  /\ \E visible \in BOOLEAN :
       IF visible
         THEN /\ textarea' = selIdx /\ spc' = "focus"
              /\ UNCHANGED <<selIdx, failedAt>>
         ELSE IF selIdx < NumSelectors
           THEN /\ selIdx' = selIdx + 1
                /\ UNCHANGED <<textarea, spc, failedAt>>
           ELSE /\ spc' = "catch" /\ failedAt' = "probe"
                /\ UNCHANGED <<selIdx, textarea>>
  /\ UNCHANGED <<retryVars, postLen, typed, clickTried, clickedVia, verified,
                 shot, sret, script>>
  /\ UNCHANGED notPost

\* postTweetWithEnter: textarea.click()
EnterFocus ==
  /\ script = "postjsEnter"
  /\ SubmitStep("focus", "type", "focus")
  /\ UNCHANGED <<retryVars, postLen, selIdx, textarea, typed, clickTried,
                 clickedVia, verified, shot, sret, script>>
  /\ UNCHANGED notPost

\* postTweetWithEnter: page.keyboard.type of one character
EnterType ==
  /\ script = "postjsEnter"
  /\ typed < postLen
  /\ SubmitStep("type", "type", "type")
  /\ typed' = IF spc' = "type" THEN typed + 1 ELSE typed
  /\ UNCHANGED <<retryVars, postLen, selIdx, textarea, clickTried, clickedVia,
                 verified, shot, sret, script>>
  /\ UNCHANGED notPost

\* postTweetWithEnter: Ctrl+Enter, and when the keyboard raises, the keydown
\* event dispatched in the page (which may raise into the catch block)
EnterShortcut ==
  /\ script = "postjsEnter"
  /\ rpc = "submit" /\ spc = "type" /\ typed = postLen
  /\ \E r \in {"pressed", "dispatched", "raised"} :
       /\ clickTried' =
            IF r = "pressed"
              THEN <<[method |-> "shortcut", ok |-> TRUE]>>
              ELSE <<[method |-> "shortcut", ok |-> FALSE],
                     [method |-> "keyEvent", ok |-> r = "dispatched"]>>
       /\ clickedVia' = IF r = "pressed" THEN "shortcut"
                        ELSE IF r = "dispatched" THEN "keyEvent" ELSE "none"
       /\ spc' = IF r = "raised" THEN "catch" ELSE "verify"
       /\ failedAt' = IF r = "raised" THEN "shortcut" ELSE failedAt
  /\ UNCHANGED <<retryVars, postLen, selIdx, textarea, typed, verified, shot,
                 sret, script>>
  /\ UNCHANGED notPost

\* postTweetWithEnter: verifyTweetPosted, then `return true` in both branches
EnterVerify ==
  /\ script = "postjsEnter"
  /\ rpc = "submit" /\ spc = "verify"
  /\ \E page \in VerifyOutcomes :
       verified' = IF verifyTweetPosted(page) THEN "yes" ELSE "no"
  /\ sret' = "true"
  /\ spc' = "ret"
  /\ UNCHANGED <<retryVars, postLen, selIdx, textarea, typed, clickTried,
                 clickedVia, shot, failedAt, script>>
  /\ UNCHANGED notPost

\* postTweetWithEnter: the catch block, a best-effort screenshot and false
EnterCatch ==
  /\ script = "postjsEnter"
  /\ rpc = "submit" /\ spc = "catch"
  /\ \E shotOk \in BOOLEAN : shot' = IF shotOk THEN "saved" ELSE "failed"
  /\ sret' = "false"
  /\ spc' = "ret"
  /\ UNCHANGED <<retryVars, postLen, selIdx, textarea, typed, clickTried,
                 clickedVia, verified, failedAt, script>>
  /\ UNCHANGED notPost

\* main: `posted = await postTweetWithEnter`, and the fallback call when false
EnterReturns ==
  /\ script = "postjsEnter"
  /\ rpc = "submit" /\ spc = "ret"
  /\ outcomes' = Append(outcomes, sret)
  /\ IF sret = "true"
       THEN /\ retVal' = "true" /\ rpc' = "done"
            /\ UNCHANGED <<calls, submitVars>>
       ELSE /\ calls' = calls + 1
            /\ script' = "postjsButton"
            /\ spc' = "goto" /\ selIdx' = 1 /\ textarea' = 0 /\ typed' = 0
            /\ clickTried' = <<>> /\ clickedVia' = "none" /\ verified' = "none"
            /\ shot' = "none" /\ sret' = "pending" /\ failedAt' = "none"
            /\ UNCHANGED <<retVal, rpc, postLen>>
  /\ UNCHANGED <<maxRetries, attempt, contentLog, errorLog, csvRows,
                 writeRejected, shadow>>
  /\ UNCHANGED notPost

\* postTweetWithButton of post.js: page.goto(home)
FallbackGoto ==
  /\ script = "postjsButton"
  /\ SubmitStep("goto", "probe", "goto")
  /\ UNCHANGED <<retryVars, postLen, selIdx, textarea, typed, clickTried,
                 clickedVia, verified, shot, sret, script>>
  /\ UNCHANGED notPost

\* postTweetWithButton of post.js: the single waitForSelector of the textarea
FallbackFindTextarea ==
  /\ script = "postjsButton"
  /\ SubmitStep("probe", "focus", "probe")
  /\ textarea' = IF spc' = "focus" THEN 1 ELSE textarea
  /\ UNCHANGED <<retryVars, postLen, selIdx, typed, clickTried, clickedVia,
                 verified, shot, sret, script>>
  /\ UNCHANGED notPost

\* postTweetWithButton of post.js: textarea.click()
FallbackFocus ==
  /\ script = "postjsButton"
  /\ SubmitStep("focus", "type", "focus")
  /\ UNCHANGED <<retryVars, postLen, selIdx, textarea, typed, clickTried,
                 clickedVia, verified, shot, sret, script>>
  /\ UNCHANGED notPost

\* postTweetWithButton of post.js: page.keyboard.type of one character
FallbackType ==
  /\ script = "postjsButton"
  /\ typed < postLen
  /\ SubmitStep("type", "type", "type")
  /\ typed' = IF spc' = "type" THEN typed + 1 ELSE typed
  /\ UNCHANGED <<retryVars, postLen, selIdx, textarea, clickTried, clickedVia,
                 verified, shot, sret, script>>
  /\ UNCHANGED notPost

\* postTweetWithButton of post.js: waiting for the button and for it to be enabled
FallbackFindButton ==
  /\ script = "postjsButton"
  /\ typed = postLen
  /\ SubmitStep("type", "native", "button")
  /\ UNCHANGED <<retryVars, postLen, selIdx, textarea, typed, clickTried,
                 clickedVia, verified, shot, sret, script>>
  /\ UNCHANGED notPost

\* postTweetWithButton of post.js: postButton.click(), its only click method
FallbackClick ==
  /\ script = "postjsButton"
  /\ rpc = "submit" /\ spc = "native"
  /\ \E ok \in BOOLEAN :
       /\ clickTried' = Append(clickTried, [method |-> "native", ok |-> ok])
       /\ clickedVia' = IF ok THEN "native" ELSE clickedVia
       /\ spc' = IF ok THEN "verify" ELSE "catch"
       /\ failedAt' = IF ok THEN failedAt ELSE "click"
  /\ UNCHANGED <<retryVars, postLen, selIdx, textarea, typed, verified, shot,
                 sret, script>>
  /\ UNCHANGED notPost

\* postTweetWithButton of post.js: `return await verifyTweetPosted(...)`
FallbackVerify ==
  /\ script = "postjsButton"
  /\ rpc = "submit" /\ spc = "verify"
  /\ \E page \in VerifyOutcomes :
       /\ verified' = IF verifyTweetPosted(page) THEN "yes" ELSE "no"
       /\ sret' = IF verifyTweetPosted(page) THEN "true" ELSE "false"
  /\ spc' = "ret"
  /\ UNCHANGED <<retryVars, postLen, selIdx, textarea, typed, clickTried,
                 clickedVia, shot, failedAt, script>>
  /\ UNCHANGED notPost

\* postTweetWithButton of post.js: the catch block, `return false`
FallbackCatch ==
  /\ script = "postjsButton"
  /\ rpc = "submit" /\ spc = "catch"
  /\ sret' = "false"
  /\ spc' = "ret"
  /\ UNCHANGED <<retryVars, postLen, selIdx, textarea, typed, clickTried,
                 clickedVia, verified, shot, failedAt, script>>
  /\ UNCHANGED notPost

\* main: `posted = await postTweetWithButton`
FallbackReturns ==
  /\ script = "postjsButton"
  /\ rpc = "submit" /\ spc = "ret"
  /\ outcomes' = Append(outcomes, sret)
  /\ retVal' = sret
  /\ rpc' = "done"
  /\ UNCHANGED <<maxRetries, attempt, calls, contentLog, errorLog, csvRows,
                 writeRejected, shadow, submitVars>>
  /\ UNCHANGED notPost

NextPostJs ==
  \/ EnterGoto
  \/ EnterProbe
  \/ EnterFocus
  \/ EnterType
  \/ EnterShortcut
  \/ EnterVerify
  \/ EnterCatch
  \/ EnterReturns
  \/ FallbackGoto
  \/ FallbackFindTextarea
  \/ FallbackFocus
  \/ FallbackType
  \/ FallbackFindButton
  \/ FallbackClick
  \/ FallbackVerify
  \/ FallbackCatch
  \/ FallbackReturns

SpecPostJs == InitPostJs /\ [][NextPostJs]_vars

\* ---------------------------------------------------------------------
\* SpecGen: the text the generators make of the service's answer.  A text
\* is a sequence of characters; "ws" is a whitespace character, "dq" and
\* "sq" the double and the single quote.
\* ---------------------------------------------------------------------
Letters == <<"a", "b", "c", "d", "e", "f", "g">>
QuoteChars == {"dq", "sq"}
Ellipsis == <<".", ".", ".">>

Rep(c, n) == [i \in 1..n |-> c]
Body(n) == [i \in 1..n |-> Letters[((i - 1) % Len(Letters)) + 1]]

\* an answer: whitespace, quotes, letters, quotes, whitespace
Content(sh) ==
  Rep("ws", sh.lw) \o Rep(sh.qc, sh.lq) \o Body(sh.n) \o Rep(sh.qc, sh.tq)
    \o Rep("ws", sh.tw)

Shapes ==
  [lw : 0..MaxWs, lq : 0..MaxQuotes, qc : QuoteChars, n : 0..MaxBodyLen,
   tq : 0..MaxQuotes, tw : 0..MaxWs]

\* String.prototype.trim
Trim(s) ==
  IF \A i \in 1..Len(s) : s[i] = "ws" THEN <<>>
  ELSE LET first == CHOOSE i \in 1..Len(s) :
                      s[i] /= "ws" /\ \A j \in 1..(i - 1) : s[j] = "ws"
           last == CHOOSE i \in 1..Len(s) :
                     s[i] /= "ws" /\ \A j \in (i + 1)..Len(s) : s[j] = "ws"
       IN SubSeq(s, first, last)

\* content.replace(/^["']|["']$/g, ''): one quote off the start, one off the end
StripQuotes(s) ==
  LET a == IF s /= <<>> /\ s[1] \in QuoteChars THEN Tail(s) ELSE s
  IN IF a /= <<>> /\ a[Len(a)] \in QuoteChars THEN SubSeq(a, 1, Len(a) - 1) ELSE a

Clamp_keepLimit(s) ==
  IF Len(s) > TweetLimit THEN SubSeq(s, 1, TweetLimit) \o Ellipsis ELSE s

\* content.length > 280 ? content.substring(0, 277) + '...' : content
Clamp(s) ==
  IF Len(s) > TweetLimit THEN SubSeq(s, 1, KeepLen) \o Ellipsis ELSE s

\* generatePostWithOpenRouter: null on a transport error or an answer without
\* choices; otherwise the answer trimmed, stripped of its quotes, clamped
generatePostWithOpenRouter(resp) ==
  IF resp.kind /= "ok" THEN NoText
  ELSE [isNull |-> FALSE, text |-> Clamp(StripQuotes(Trim(resp.content)))]

\* generateAIComment: null for a post text under 10 characters, on a transport
\* error or an answer without choices; otherwise the answer trimmed and clamped
generateAIComment(resp, longEnough) ==
  IF ~longEnough \/ resp.kind /= "ok" THEN NoText
  ELSE [isNull |-> FALSE, text |-> Clamp(Trim(resp.content))]

InitGen ==
  /\ \/ \E k \in {"transportError", "noChoices"} :
          response = [kind |-> k, content |-> <<>>, shape |-> NoShape]
     \/ \E sh \in Shapes :
          response = [kind |-> "ok", content |-> Content(sh), shape |-> sh]
  /\ genFn = "none" /\ genOut = NoText
  /\ IdleDiv
  /\ maxRetries = ConfigMaxRetries
  /\ attempt = 1 /\ rpc = "loop" /\ retVal = "pending"
  /\ calls = 0 /\ outcomes = <<>>
  /\ contentLog = <<>> /\ errorLog = <<>> /\ csvRows = <<>>
  /\ writeRejected = FALSE
  /\ shadow = InitialRetryState(maxRetries)
  /\ postLen = 0
  /\ IdleSubmit
  /\ IdleControl

GeneratePost ==
  /\ genFn = "none"
  /\ genFn' = "post"
  /\ genOut' = generatePostWithOpenRouter(response)
  /\ UNCHANGED <<response, notGen>>

GenerateComment ==
  /\ genFn = "none"
  /\ genFn' = "comment"
  /\ \E longEnough \in BOOLEAN : genOut' = generateAIComment(response, longEnough)
  /\ UNCHANGED <<response, notGen>>

NextGen == GeneratePost \/ GenerateComment

SpecGen == InitGen /\ [][NextGen]_vars

\* ---------------------------------------------------------------------
\* SpecDiv: checkContentDiversity against a ContentLog collection.  A
\* document is [text, age, success], age being the hours since postedAt.
\* ---------------------------------------------------------------------
Upper == <<"A", "B", "C", "D", "E">>
Lower == <<"a", "b", "c", "d", "e">>

\* String.prototype.toLowerCase
ToLower(s) ==
  [i \in 1..Len(s) |->
     IF \E j \in 1..Len(Upper) : Upper[j] = s[i]
       THEN Lower[CHOOSE j \in 1..Len(Upper) : Upper[j] = s[i]]
       ELSE s[i]]

IsSpace(c) == c = " "
NotSpace(c) == ~IsSpace(c)
Bigrams(s) == [i \in 1..(Len(s) - 1) |-> <<s[i], s[i + 1]>>]

\* the second loop of compareTwoStrings: every bigram of the second text that is
\* still available among the first text's bigrams counts once and uses one up
RECURSIVE Intersection(_, _, _)
Intersection(avail, bs, i) ==
  IF i > Len(bs) THEN 0
  ELSE IF bs[i] \in DOMAIN avail /\ avail[bs[i]] > 0
    THEN 1 + Intersection([avail EXCEPT ![bs[i]] = @ - 1], bs, i + 1)
    ELSE Intersection(avail, bs, i + 1)

\* compareTwoStrings of the string-similarity package (the Dice coefficient of
\* the bigrams of the texts without their whitespace), as a fraction
compareTwoStrings(first, second) ==
  LET a == SelectSeq(first, NotSpace)
      b == SelectSeq(second, NotSpace)
      ba == Bigrams(a)
      avail == [g \in {ba[i] : i \in 1..Len(ba)} |->
                  Cardinality({i \in 1..Len(ba) : ba[i] = g})]
  IN IF a = b THEN [num |-> 1, den |-> 1]
     ELSE IF Len(a) < 2 \/ Len(b) < 2 THEN [num |-> 0, den |-> 1]
     ELSE [num |-> 2 * Intersection(avail, Bigrams(b), 1),
           den |-> Len(a) + Len(b) - 2]

Similarity_caseSensitive(logged, candidate) == compareTwoStrings(logged, candidate)

\* the similarity the guard computes for one logged text
Similarity(logged, candidate) ==
  compareTwoStrings(ToLower(logged), ToLower(candidate))

\* similarity > CONFIG.automation.similarityThreshold
TooSimilar(sim) == sim.num * ThresholdDen > ThresholdNum * sim.den

\* the filter of the query: postedAt >= now - 24 h, success: true
Eligible(doc) == doc.age <= WindowHours /\ doc.success

BagSize(bag) ==
  LET RECURSIVE Sum(_)
      Sum(D) == IF D = {} THEN 0
                ELSE LET k == CHOOSE x \in D : TRUE IN bag[k] + Sum(D \ {k})
  IN Sum(DOMAIN bag)

BagRemove(bag, k) ==
  IF bag[k] = 1 THEN [x \in DOMAIN bag \ {k} |-> bag[x]]
  ELSE [bag EXCEPT ![k] = @ - 1]

\* the bags left after taking d documents out of a bag
RECURSIVE Without(_, _)
Without(bag, d) ==
  IF d = 0 THEN {bag}
  ELSE UNION {Without(BagRemove(bag, k), d - 1) : k \in DOMAIN bag}

\* ContentLog.find(filter).limit(20): the query has no sort, so any 20 of the
\* matching documents may come back when more than 20 match
QueryResults(coll) ==
  LET matching == [k \in {d \in DOMAIN coll : Eligible(d)} |-> coll[k]]
      size == BagSize(matching)
  IN Without(matching, IF size > QueryLimit THEN size - QueryLimit ELSE 0)

DiversityOnError_failClosed == "false"

\* the catch block of checkContentDiversity: `return true`
DiversityOnError == "true"

\* checkContentDiversity, given whether the query resolved and what it returned
checkContentDiversity(candidate, resolved, found) ==
  IF ~resolved THEN DiversityOnError
  ELSE IF BagSize(found) = 0 THEN "true"
  ELSE IF \E doc \in DOMAIN found : TooSimilar(Similarity(doc.text, candidate))
    THEN "false"
  ELSE "true"

Texts ==
  { <<"a", "b", "c", "d">>, <<"A", "B", "c", "d">>, <<"a", "b", " ", "c", "d">>,
    <<"a", "b", "c", "d", "e">>, <<"a", "b", "c", "e">>, <<"d", "e">>,
    <<"a">>, <<"A">> }
Candidates == { <<"a", "b", "c", "d">>, <<"d", "e">>, <<"a">> }
Ages == {0, 24, 25}
Docs == [text : Texts, age : Ages, success : BOOLEAN]
FillerDoc == [text |-> <<"e", "d">>, age |-> 0, success |-> TRUE]

RECURSIVE SubsetsUpTo(_, _)
SubsetsUpTo(S, k) ==
  IF k = 0 THEN {{}}
  ELSE LET P == SubsetsUpTo(S, k - 1) IN P \cup {p \cup {x} : p \in P, x \in S}

Collection(fillers, extras) ==
  [k \in (IF fillers > 0 THEN {FillerDoc} ELSE {}) \cup extras |->
     IF k = FillerDoc THEN fillers ELSE 1]

InitDiv ==
  /\ \E fillers \in 0..MaxFiller, extras \in SubsetsUpTo(Docs, MaxExtra) :
       history = Collection(fillers, extras)
  /\ newPost \in Candidates
  /\ lookupOk = TRUE /\ recentPosts = EmptyBag /\ divOut = "none"
  /\ IdleGen
  /\ maxRetries = ConfigMaxRetries
  /\ attempt = 1 /\ rpc = "loop" /\ retVal = "pending"
  /\ calls = 0 /\ outcomes = <<>>
  /\ contentLog = <<>> /\ errorLog = <<>> /\ csvRows = <<>>
  /\ writeRejected = FALSE
  /\ shadow = InitialRetryState(maxRetries)
  /\ postLen = 0
  /\ IdleSubmit
  /\ IdleControl

\* checkContentDiversity with the query resolving
CheckDiversity ==
  /\ divOut = "none"
  /\ \E found \in QueryResults(history) :
       /\ recentPosts' = found
       /\ divOut' = checkContentDiversity(newPost, TRUE, found)
  /\ lookupOk' = TRUE
  /\ UNCHANGED <<history, newPost, notDiv>>

\* checkContentDiversity with the query raising
CheckDiversityLookupFails ==
  /\ divOut = "none"
  /\ lookupOk' = FALSE
  /\ recentPosts' = EmptyBag
  /\ divOut' = checkContentDiversity(newPost, FALSE, EmptyBag)
  /\ UNCHANGED <<history, newPost, notDiv>>

NextDiv == CheckDiversity \/ CheckDiversityLookupFails

SpecDiv == InitDiv /\ [][NextDiv]_vars

\* ---------------------------------------------------------------------
\* The Session collection: loadSessionFromDB, saveSessionToDB and
\* extractAndSaveSession.  A document is [accountEmail, cookies,
\* localStorage, sessionStorage, updatedAt]; cookies and storage entries
\* are named by strings.
\* ---------------------------------------------------------------------
Accounts == {"acct1", "acct2"}
ConfigEmail == "acct1"
CookieNames == {"auth_token", "ct0", "noValue"}
\* cookies lacking a name, a value or a domain
Incomplete == {"noValue"}
StorageKeys == {"k1"}
PageStates ==
  [cookies : SUBSET CookieNames, localStorage : SUBSET StorageKeys,
   sessionStorage : SUBSET StorageKeys]

\* the filter of extractAndSaveSession: cookies with name, value and domain
cleanCookies(raw) == raw \ Incomplete

\* Session.findOne({ accountEmail: email })
findOne(coll, email) ==
  IF \E d \in coll : d.accountEmail = email
    THEN [found |-> TRUE, doc |-> CHOOSE d \in coll : d.accountEmail = email]
    ELSE NoSession

findOneAndUpdate_insert(coll, email, fields, now) ==
  coll \cup {[accountEmail |-> email, cookies |-> fields.cookies,
              localStorage |-> fields.localStorage,
              sessionStorage |-> fields.sessionStorage, updatedAt |-> now]}

findOneAndUpdate_merge(coll, email, fields, now) ==
  IF \E d \in coll : d.accountEmail = email
    THEN {IF d.accountEmail = email
            THEN [d EXCEPT !.cookies = @ \cup fields.cookies,
                           !.localStorage = @ \cup fields.localStorage,
                           !.sessionStorage = @ \cup fields.sessionStorage,
                           !.updatedAt = now]
            ELSE d : d \in coll}
    ELSE coll \cup {[accountEmail |-> email, cookies |-> fields.cookies,
                     localStorage |-> fields.localStorage,
                     sessionStorage |-> fields.sessionStorage, updatedAt |-> now]}

\* Session.findOneAndUpdate({ accountEmail: email }, { cookies, localStorage,
\* sessionStorage, updatedAt }, { upsert: true, new: true }): the fields of the
\* matching document are replaced, or a document is inserted when none matches
findOneAndUpdate(coll, email, fields, now) ==
  IF \E d \in coll : d.accountEmail = email
    THEN {IF d.accountEmail = email
            THEN [d EXCEPT !.cookies = fields.cookies,
                           !.localStorage = fields.localStorage,
                           !.sessionStorage = fields.sessionStorage,
                           !.updatedAt = now]
            ELSE d : d \in coll}
    ELSE coll \cup {[accountEmail |-> email, cookies |-> fields.cookies,
                     localStorage |-> fields.localStorage,
                     sessionStorage |-> fields.sessionStorage, updatedAt |-> now]}

\* loadSessionFromDB: the document, or null when none exists or the query raises
loadSessionFromDB(coll, email, storeOk) ==
  IF storeOk THEN findOne(coll, email) ELSE NoSession

\* saveSessionToDB: the upsert; a rejected write is logged and swallowed
saveSessionToDB(coll, email, fields, now, storeOk) ==
  IF storeOk THEN findOneAndUpdate(coll, email, fields, now) ELSE coll

extractAndSaveSession_skip(coll, email, page, now, extractOk, storeOk) == coll

\* extractAndSaveSession: page.cookies(), the two storage snapshots, then
\* saveSessionToDB; an exception while extracting is logged and swallowed
extractAndSaveSession(coll, email, page, now, extractOk, storeOk) ==
  IF extractOk
    THEN saveSessionToDB(coll, email,
           [cookies |-> cleanCookies(page.cookies),
            localStorage |-> page.localStorage,
            sessionStorage |-> page.sessionStorage], now, storeOk)
    ELSE coll

\* ---------------------------------------------------------------------
\* SpecSession: any sequence of saveSessionToDB and loadSessionFromDB calls
\* by the runs of two accounts, each store operation resolving or raising.
\* ---------------------------------------------------------------------
Snapshots ==
  { [cookies |-> {"auth_token"}, localStorage |-> {"k1"}, sessionStorage |-> {}],
    [cookies |-> {"ct0"}, localStorage |-> {}, sessionStorage |-> {"k1"}] }

InitSession ==
  /\ mpc = "store" /\ envOk = TRUE /\ storeUp = TRUE /\ postsToDo = 1 /\ cycles = 0
  /\ browser = "none" /\ exitCode = "none"
  /\ sessions = {} /\ clock = 0 /\ existingSession = NoSession
  /\ pageSession = NoPage /\ freshLogin = NoPage
  /\ trends = 0 /\ usedTopics = {} /\ postData = 0 /\ trace = <<>>
  /\ IdleRetry /\ IdleSubmit /\ IdleGen /\ IdleDiv /\ IdleRest

\* saveSessionToDB(email, cookies, localStorage, sessionStorage)
SaveSession ==
  /\ mpc = "store" /\ Len(trace) < MaxStoreOps
  /\ \E email \in Accounts, fields \in Snapshots, storeOk \in BOOLEAN :
       /\ sessions' = saveSessionToDB(sessions, email, fields, clock + 1, storeOk)
       /\ trace' = Append(trace, [op |-> "save", email |-> email,
                                  fields |-> fields, ok |-> storeOk])
  /\ clock' = clock + 1
  /\ UNCHANGED <<mpc, envOk, storeUp, postsToDo, cycles, browser, exitCode,
                 existingSession, pageSession, freshLogin, trends, usedTopics,
                 postData>>
  /\ UNCHANGED <<retryVars, submitVars, genVars, divVars, restVars>>

\* loadSessionFromDB(email)
LoadSession ==
  /\ mpc = "store" /\ Len(trace) < MaxStoreOps
  /\ \E email \in Accounts, storeOk \in BOOLEAN :
       /\ existingSession' = loadSessionFromDB(sessions, email, storeOk)
       /\ trace' = Append(trace, [op |-> "load", email |-> email,
                                  fields |-> NoPage, ok |-> storeOk])
  /\ UNCHANGED <<mpc, envOk, storeUp, postsToDo, cycles, browser, exitCode,
                 sessions, clock, pageSession, freshLogin, trends, usedTopics,
                 postData>>
  /\ UNCHANGED <<retryVars, submitVars, genVars, divVars, restVars>>

NextSession == SaveSession \/ LoadSession

SpecSession == InitSession /\ [][NextSession]_vars

\* ---------------------------------------------------------------------
\* SpecRun: one process of the retrying script, from the call of main to
\* the exit of the process.  Every awaited operation resolves or raises as
\* its code allows; trace records what the run did, in program order.
\* ---------------------------------------------------------------------
Ev(op, res) == [op |-> op, res |-> res]
Flag(ok) == IF ok THEN "ok" ELSE "failed"

\* what the process environment and the Session collection can be at the start
StoredDoc ==
  [accountEmail |-> ConfigEmail, cookies |-> {"ct0"}, localStorage |-> {},
   sessionStorage |-> {}, updatedAt |-> 0]
\* what the page can hold once the login went through
LoginPages ==
  { [cookies |-> {"auth_token", "noValue"}, localStorage |-> {"k1"},
     sessionStorage |-> {}],
    [cookies |-> {"auth_token", "ct0"}, localStorage |-> {},
     sessionStorage |-> {"k1"}] }

\* process.exit(1) of validateConfig
SetupExit == "1"
\* the status of a process whose main resolved, or rejected into
\* `main().catch(console.error)`: nothing sets an exit code
PlainExit == "0"

InitRun ==
  /\ mpc = "validateConfig"
  /\ envOk \in BOOLEAN /\ storeUp \in BOOLEAN
  /\ postsToDo \in 1..MaxPostsToDo
  /\ cycles = 0 /\ browser = "none" /\ exitCode = "none"
  /\ sessions \in {{}, {StoredDoc}} /\ clock = 0
  /\ existingSession = NoSession /\ pageSession = NoPage /\ freshLogin = NoPage
  /\ trends = 0 /\ usedTopics = {} /\ postData = 0 /\ trace = <<>>
  /\ IdleRetry /\ IdleSubmit /\ IdleGen /\ IdleDiv /\ IdleRest

\* a step of main that changes nothing but its position and the trace
MainStep(at, next, ev) ==
  /\ mpc = at
  /\ mpc' = next
  /\ trace' = Append(trace, ev)
  /\ UNCHANGED <<envOk, storeUp, postsToDo, cycles, browser, exitCode, sessions,
                 clock, existingSession, pageSession, freshLogin, trends,
                 usedTopics, postData>>
  /\ UNCHANGED <<retryVars, submitVars, genVars, divVars, restVars>>

\* validateConfig: process.exit(1) when a required variable is missing
RunValidateConfig ==
  /\ mpc = "validateConfig"
  /\ mpc' = IF envOk THEN "connect" ELSE "exited"
  /\ exitCode' = IF envOk THEN exitCode ELSE SetupExit
  /\ trace' = Append(trace, Ev("validateConfig", Flag(envOk)))
  /\ UNCHANGED <<envOk, storeUp, postsToDo, cycles, browser, sessions, clock,
                 existingSession, pageSession, freshLogin, trends, usedTopics,
                 postData>>
  /\ UNCHANGED <<retryVars, submitVars, genVars, divVars, restVars>>

\* connectMongoDB, called outside the try block of main: it rethrows, main
\* rejects, and the rejection is printed by main().catch(console.error)
RunConnect ==
  /\ mpc = "connect"
  /\ mpc' = IF storeUp THEN "launch" ELSE "exited"
  /\ exitCode' = IF storeUp THEN exitCode ELSE PlainExit
  /\ trace' = Append(trace, Ev("connect", Flag(storeUp)))
  /\ UNCHANGED <<envOk, storeUp, postsToDo, cycles, browser, sessions, clock,
                 existingSession, pageSession, freshLogin, trends, usedTopics,
                 postData>>
  /\ UNCHANGED <<retryVars, submitVars, genVars, divVars, restVars>>

\* launchBrowser
RunLaunch ==
  /\ mpc = "launch"
  /\ \E ok \in BOOLEAN :
       /\ browser' = IF ok THEN "open" ELSE browser
       /\ mpc' = IF ok THEN "loadSession" ELSE "catch"
       /\ trace' = Append(trace, Ev("launch", Flag(ok)))
  /\ UNCHANGED <<envOk, storeUp, postsToDo, cycles, exitCode, sessions, clock,
                 existingSession, pageSession, freshLogin, trends, usedTopics,
                 postData>>
  /\ UNCHANGED <<retryVars, submitVars, genVars, divVars, restVars>>

\* loadSessionFromDB(CONFIG.twitter.email) and `if (existingSession)`
RunLoadSession ==
  /\ mpc = "loadSession"
  /\ \E storeOk \in BOOLEAN :
       LET found == loadSessionFromDB(sessions, ConfigEmail, storeOk)
       IN /\ existingSession' = found
          /\ mpc' = IF found.found THEN "applyCookies" ELSE "login"
          /\ trace' = Append(trace, Ev("loadSession", Flag(found.found)))
  /\ UNCHANGED <<envOk, storeUp, postsToDo, cycles, browser, exitCode, sessions,
                 clock, pageSession, freshLogin, trends, usedTopics, postData>>
  /\ UNCHANGED <<retryVars, submitVars, genVars, divVars, restVars>>

\* where main goes after applySessionCookies: when the cookies could not be
\* applied neither the validity probe nor a login follows
AfterApply(cookiesApplied) == IF cookiesApplied THEN "validateSession" ELSE "authDone"

\* applySessionCookies: false on any exception
RunApplyCookies ==
  /\ mpc = "applyCookies"
  /\ \E ok \in BOOLEAN :
       /\ pageSession' =
            IF ok THEN [pageSession EXCEPT
                          !.cookies = cleanCookies(existingSession.doc.cookies),
                          !.localStorage = existingSession.doc.localStorage]
                  ELSE pageSession
       /\ mpc' = AfterApply(ok)
       /\ trace' = Append(trace, Ev("applyCookies", Flag(ok)))
  /\ UNCHANGED <<envOk, storeUp, postsToDo, cycles, browser, exitCode, sessions,
                 clock, existingSession, freshLogin, trends, usedTopics, postData>>
  /\ UNCHANGED <<retryVars, submitVars, genVars, divVars, restVars>>

AfterValidate_always(isValid) == "login"

\* `if (!isValid)`: the fresh login only when the probe failed
AfterValidate(isValid) == IF isValid THEN "authDone" ELSE "login"

\* validateSession: false on any exception
RunValidateSession ==
  \E valid \in BOOLEAN :
    MainStep("validateSession", AfterValidate(valid),
             Ev("validateSession", Flag(valid)))

\* where main goes after loginToTwitter: `throw new Error('Login failed')`
AfterLogin(loginSuccess) == IF loginSuccess THEN "extractSession" ELSE "catch"

\* loginToTwitter: false on any exception and when the URL is the login path
RunLogin ==
  /\ mpc = "login"
  /\ \E ok \in BOOLEAN, page \in LoginPages :
       /\ pageSession' = IF ok THEN page ELSE pageSession
       /\ freshLogin' = IF ok THEN page ELSE freshLogin
       /\ mpc' = AfterLogin(ok)
       /\ trace' = Append(trace, Ev("login", Flag(ok)))
  /\ UNCHANGED <<envOk, storeUp, postsToDo, cycles, browser, exitCode, sessions,
                 clock, existingSession, trends, usedTopics, postData>>
  /\ UNCHANGED <<retryVars, submitVars, genVars, divVars, restVars>>

\* extractAndSaveSession(page, CONFIG.twitter.email)
RunExtractSession ==
  /\ mpc = "extractSession"
  /\ \E extractOk \in BOOLEAN, storeOk \in BOOLEAN :
       /\ sessions' = extractAndSaveSession(sessions, ConfigEmail, pageSession,
                                            clock + 1, extractOk, storeOk)
       /\ trace' = Append(trace,
            Ev("extractSession", IF ~extractOk THEN "extractRaised"
                                 ELSE IF ~storeOk THEN "saveRejected" ELSE "saved"))
  /\ clock' = clock + 1
  /\ mpc' = "authDone"
  /\ UNCHANGED <<envOk, storeUp, postsToDo, cycles, browser, exitCode,
                 existingSession, pageSession, freshLogin, trends, usedTopics,
                 postData>>
  /\ UNCHANGED <<retryVars, submitVars, genVars, divVars, restVars>>

\* 'Authentication successful!', then page.goto(home)
RunGotoHome ==
  \E ok \in BOOLEAN :
    MainStep("authDone", IF ok THEN "scroll" ELSE "catch", Ev("gotoHome", Flag(ok)))

AfterScroll_speculative == "generate"

\* where main goes once the feed was scrolled
AfterScroll == "discover"

\* autoScrollPages
RunScroll ==
  \E ok \in BOOLEAN :
    MainStep("scroll", IF ok THEN AfterScroll ELSE "catch", Ev("scroll", Flag(ok)))

\* `if (trendingTopics.length === 0) throw new Error('No trending topics found')`
AfterDiscover(n) == IF n = 0 THEN "catch" ELSE "select"

\* getTrendingTopicsWithContext: the topics found, none on any exception
RunDiscover ==
  /\ mpc = "discover"
  /\ \E n \in 0..MaxTrends :
       /\ trends' = n
       /\ mpc' = AfterDiscover(n)
       /\ trace' = Append(trace, Ev("discover", IF n = 0 THEN "empty" ELSE "ok"))
  /\ UNCHANGED <<envOk, storeUp, postsToDo, cycles, browser, exitCode, sessions,
                 clock, existingSession, pageSession, freshLogin, usedTopics,
                 postData>>
  /\ UNCHANGED <<retryVars, submitVars, genVars, divVars, restVars>>

selectRandomTrend_any(n, used) == 1..n

\* selectRandomTrend: any topic not yet used, any topic when all are used
selectRandomTrend(n, used) ==
  IF (1..n) \ used = {} THEN 1..n ELSE (1..n) \ used

\* selectRandomTrend and usedTopics.push
RunSelect ==
  /\ mpc = "select"
  /\ \E t \in selectRandomTrend(trends, usedTopics) : usedTopics' = usedTopics \cup {t}
  /\ mpc' = "sample"
  /\ trace' = Append(trace, Ev("select", "ok"))
  /\ UNCHANGED <<envOk, storeUp, postsToDo, cycles, browser, exitCode, sessions,
                 clock, existingSession, pageSession, freshLogin, trends, postData>>
  /\ UNCHANGED <<retryVars, submitVars, genVars, divVars, restVars>>

\* sampleTrendingTweets: the tweets found, none on any exception
RunSample ==
  \E ok \in BOOLEAN : MainStep("sample", "generate", Ev("sample", Flag(ok)))

\* `if (!postData) throw new Error('Could not generate post content')`
AfterGenerate(content) == IF content THEN "diversity" ELSE "catch"

\* generatePostWithOpenRouter for the selected topic
RunGenerate ==
  /\ mpc = "generate"
  /\ \E content \in BOOLEAN :
       /\ postData' = IF content THEN 1 ELSE 0
       /\ mpc' = AfterGenerate(content)
       /\ trace' = Append(trace, Ev("generate", IF content THEN "content" ELSE "null"))
  /\ UNCHANGED <<envOk, storeUp, postsToDo, cycles, browser, exitCode, sessions,
                 clock, existingSession, pageSession, freshLogin, trends,
                 usedTopics>>
  /\ UNCHANGED <<retryVars, submitVars, genVars, divVars, restVars>>

AfterDiversity_always(isDiverse) == "regenerate"

\* `if (!isDiverse)`
AfterDiversity(isDiverse) == IF isDiverse THEN "post" ELSE "regenerate"

\* checkContentDiversity(postData.post)
RunDiversity ==
  \E isDiverse \in BOOLEAN :
    MainStep("diversity", AfterDiversity(isDiverse),
             Ev("diversity", IF isDiverse THEN "diverse" ELSE "similar"))

\* the regeneration: another topic, generatePostWithOpenRouter once more, and
\* Object.assign(postData, retryPostData) when it returned content
RunRegenerate ==
  /\ mpc = "regenerate"
  /\ \E t \in selectRandomTrend(trends, usedTopics), content \in BOOLEAN :
       /\ usedTopics' = usedTopics \cup {t}
       /\ postData' = IF content THEN 2 ELSE postData
       /\ trace' = trace \o <<Ev("select", "ok"),
                              Ev("generate", IF content THEN "content" ELSE "null")>>
  /\ mpc' = "post"
  /\ UNCHANGED <<envOk, storeUp, postsToDo, cycles, browser, exitCode, sessions,
                 clock, existingSession, pageSession, freshLogin, trends>>
  /\ UNCHANGED <<retryVars, submitVars, genVars, divVars, restVars>>

\* what one iteration of postTweetWithRetry does, in program order: the submit,
\* the awaited log call of a terminal outcome, then the return
AttemptEvents(before, after) ==
  <<Ev("submit", after.outcomes[Len(after.outcomes)])>>
    \o (IF Len(after.logs.content) > Len(before.logs.content)
          THEN <<Ev("contentLog", "written")>> ELSE <<>>)
    \o (IF after.rpc = "done" THEN <<Ev("retryReturn", after.retVal)>> ELSE <<>>)

\* postTweetWithRetry(page, postData, csvPath): one iteration of its loop;
\* postTweetWithButton returns true or false and never raises
RunPostAttempt ==
  /\ mpc = "post" /\ rpc = "loop"
  /\ \E outcome \in {"true", "false"}, db \in DbOutcomes, csvOk \in BOOLEAN :
       LET before == BeginAttempt(RetryState)
           after == RetryIteration(before, outcome, postLen, db, csvOk)
       IN /\ SetRetryState(after)
          /\ trace' = trace \o AttemptEvents(before, after)
          /\ mpc' = IF after.rpc = "done" THEN "summary" ELSE "post"
          /\ cycles' = IF after.rpc = "done" THEN cycles + 1 ELSE cycles
  /\ UNCHANGED <<envOk, storeUp, postsToDo, browser, exitCode, sessions, clock,
                 existingSession, pageSession, freshLogin, trends, usedTopics,
                 postData>>
  /\ UNCHANGED <<shadow, postLen, submitVars, genVars, divVars, restVars>>

\* the summary and the 30 s pause
RunSummary == MainStep("summary", "finally", Ev("summary", retVal))

\* the catch block of main: ErrorLog.create, its own failure swallowed
RunCatch ==
  /\ mpc = "catch"
  /\ \E storeOk \in BOOLEAN :
       /\ errorLog' = IF storeOk
                        THEN Append(errorLog, [errorType |-> "CRITICAL_AUTOMATION_ERROR"])
                        ELSE errorLog
       /\ trace' = Append(trace, Ev("errorRecord", Flag(storeOk)))
  /\ mpc' = "finally"
  /\ UNCHANGED <<envOk, storeUp, postsToDo, cycles, browser, exitCode, sessions,
                 clock, existingSession, pageSession, freshLogin, trends,
                 usedTopics, postData>>
  /\ UNCHANGED <<maxRetries, attempt, rpc, retVal, calls, outcomes, contentLog,
                 csvRows, writeRejected, shadow, submitVars, genVars, divVars, restVars>>

Finally_leak(b) == [browser |-> b, events |-> <<>>]

\* `if (browser) await browser.close()` and `await mongoose.connection.close()`
Finally(b) ==
  [browser |-> IF b = "open" THEN "closed" ELSE b,
   events |-> <<Ev("close", b), Ev("disconnect", "ok")>>]

\* the finally block of main: browser.close(), mongoose.connection.close();
\* main resolves and the process ends
RunFinally ==
  /\ mpc = "finally"
  /\ browser' = Finally(browser).browser
  /\ mpc' = "exited"
  /\ exitCode' = PlainExit
  /\ trace' = trace \o Finally(browser).events
  /\ UNCHANGED <<envOk, storeUp, postsToDo, cycles, sessions, clock,
                 existingSession, pageSession, freshLogin, trends, usedTopics,
                 postData>>
  /\ UNCHANGED <<retryVars, submitVars, genVars, divVars, restVars>>

NextRun ==
  \/ RunValidateConfig
  \/ RunConnect
  \/ RunLaunch
  \/ RunLoadSession
  \/ RunApplyCookies
  \/ RunValidateSession
  \/ RunLogin
  \/ RunExtractSession
  \/ RunGotoHome
  \/ RunScroll
  \/ RunDiscover
  \/ RunSelect
  \/ RunSample
  \/ RunGenerate
  \/ RunDiversity
  \/ RunRegenerate
  \/ RunPostAttempt
  \/ RunSummary
  \/ RunCatch
  \/ RunFinally

SpecRun == InitRun /\ [][NextRun]_vars

\* every step of main is an await with a bound of its own (navigation and
\* selector timeouts, the request timeout, the 30 s pause): main keeps going
SpecRunFair == SpecRun /\ WF_vars(NextRun)

\* ---------------------------------------------------------------------
\* SpecRunPostJs: one process of post.js.  Its main is the same up to the
\* scrolling of the feed; from trend discovery on it differs: no abort on
\* an empty list, no diversity guard, no retry loop, no error record.
\* ---------------------------------------------------------------------
\* getTrendingTopics, and main going on to the generation whatever it found
PjDiscover ==
  /\ mpc = "discover"
  /\ \E n \in 0..MaxTrends :
       /\ trends' = n
       /\ trace' = Append(trace, Ev("discover", IF n = 0 THEN "empty" ELSE "ok"))
  /\ mpc' = "generate"
  /\ UNCHANGED <<envOk, storeUp, postsToDo, cycles, browser, exitCode, sessions,
                 clock, existingSession, pageSession, freshLogin, usedTopics,
                 postData>>
  /\ UNCHANGED <<retryVars, submitVars, genVars, divVars, restVars>>

\* generatePostWithOpenRouter(apiKey, trendingTopics), with the generic prompt
\* when there are no topics; `if (!postContent) throw`
PjGenerate ==
  /\ mpc = "generate"
  /\ \E content \in BOOLEAN :
       /\ postData' = IF content THEN 1 ELSE 0
       /\ mpc' = IF content THEN "post" ELSE "catch"
       /\ trace' = Append(trace, Ev("generate", IF content THEN "content" ELSE "null"))
  /\ UNCHANGED <<envOk, storeUp, postsToDo, cycles, browser, exitCode, sessions,
                 clock, existingSession, pageSession, freshLogin, trends,
                 usedTopics>>
  /\ UNCHANGED <<retryVars, submitVars, genVars, divVars, restVars>>

\* one of the two submit functions of post.js called by main; neither raises
PjSubmit(at, whenFalse) ==
  /\ mpc = at
  /\ \E posted \in {"true", "false"} :
       /\ calls' = calls + 1
       /\ outcomes' = Append(outcomes, posted)
       /\ retVal' = posted
       /\ trace' = Append(trace, Ev("submit", posted))
       /\ mpc' = IF posted = "true" THEN "summary" ELSE whenFalse
       /\ cycles' = IF posted = "true" \/ whenFalse = "summary"
                      THEN cycles + 1 ELSE cycles
  /\ UNCHANGED <<envOk, storeUp, postsToDo, browser, exitCode, sessions, clock,
                 existingSession, pageSession, freshLogin, trends, usedTopics,
                 postData>>
  /\ UNCHANGED <<maxRetries, attempt, rpc, contentLog, errorLog, csvRows,
                 writeRejected, shadow, submitVars, genVars, divVars, restVars>>

\* `let posted = await postTweetWithEnter(page, postContent)`
PjPostEnter == PjSubmit("post", "fallback")

\* `if (!posted) posted = await postTweetWithButton(page, postContent)`
PjPostFallback == PjSubmit("fallback", "summary")

\* the catch block of main of post.js: the error is printed, nothing is stored
PjCatch == MainStep("catch", "finally", Ev("catch", "printed"))

NextRunPostJs ==
  \/ RunValidateConfig
  \/ RunConnect
  \/ RunLaunch
  \/ RunLoadSession
  \/ RunApplyCookies
  \/ RunValidateSession
  \/ RunLogin
  \/ RunExtractSession
  \/ RunGotoHome
  \/ RunScroll
  \/ PjDiscover
  \/ PjGenerate
  \/ PjPostEnter
  \/ PjPostFallback
  \/ RunSummary
  \/ PjCatch
  \/ RunFinally

SpecRunPostJs == InitRun /\ [][NextRunPostJs]_vars

\* ---------------------------------------------------------------------
\* SpecEngage: one process of the engagement script, automateTwitter, and
\* the stop of that process requested from outside while it runs.
\* ---------------------------------------------------------------------
\* `scrollAttempts % 20 === 0`, `% 50 === 0`, `% 5 === 0`
CommentEvery == 20
NotificationsEvery == 50
ProgressEvery == 5
\* likeRandomPosts(page, 5)
LikePercentage == 5
\* `Math.random() < 0.2` and `Math.random() < 0.6`, in tenths
LuckLow == 2
LuckHigh == 6
\* values of Math.random(), in tenths, on both sides of the two thresholds
Draws == {1, 2, 5, 6, 9}

\* likeRandomPosts: how many of the visible buttons are to be clicked
PostsToLike_uncapped(visible, likePercentage, draw) ==
  LET calculatedLikes == (visible * likePercentage) \div 100
  IN IF calculatedLikes = 0 /\ visible > 0
       THEN (IF draw < LuckLow THEN 1 ELSE 0)
       ELSE IF calculatedLikes > 0
              THEN (IF draw < LuckHigh THEN calculatedLikes ELSE 0)
              ELSE 0

Min(a, b) == IF a <= b THEN a ELSE b

PostsToLike(visible, likePercentage, draw) ==
  LET calculatedLikes == (visible * likePercentage) \div 100
  IN IF calculatedLikes = 0 /\ visible > 0
       THEN (IF draw < LuckLow THEN 1 ELSE 0)
       ELSE IF calculatedLikes > 0
              THEN (IF draw < LuckHigh THEN Min(calculatedLikes, 1) ELSE 0)
              ELSE 0

\* where likeRandomPosts can meet an exception: nowhere, in one of the page
\* queries of its outer try block, or in the try block around one button
LikeFaults == {"none", "query", "button"}

\* likeRandomPosts(page, likePercentage) on a page with `visible` unliked like
\* buttons in view: the record it returns.  A fault in a page query ends in the
\* outer catch; a fault at a selected button, or a button that left the view,
\* skips that button; a clicked button counts, with its link when one was found
likeRandomPosts(visible, likePercentage, draw, fault, stillVisible, hasLink) ==
  LET postsToLike == PostsToLike(visible, likePercentage, draw)
      selected == Min(postsToLike, visible)
      likedCount == IF fault = "button" \/ ~stillVisible THEN 0 ELSE selected
  IN IF fault = "query"
       THEN [liked |-> 0, available |-> 0, likedPostLinks |-> 0, error |-> TRUE]
       ELSE IF visible = 0 \/ postsToLike = 0
         THEN [liked |-> 0, available |-> IF visible = 0 THEN 0 ELSE visible,
               likedPostLinks |-> 0, error |-> FALSE]
         ELSE [liked |-> likedCount, available |-> visible,
               likedPostLinks |-> IF hasLink THEN likedCount ELSE 0,
               error |-> FALSE]

\* what one pass of scrollFeed attempts after the like, by its number
DuePassOps_every10(n, key) ==
  (IF n % 10 = 0 /\ key THEN {"comment"} ELSE {})
    \cup (IF n % NotificationsEvery = 0 /\ key THEN {"notifications"} ELSE {})
    \cup (IF n % ProgressEvery = 0 THEN {"progress"} ELSE {})

DuePassOps(n, key) ==
  (IF n % CommentEvery = 0 /\ key THEN {"comment"} ELSE {})
    \cup (IF n % NotificationsEvery = 0 /\ key THEN {"notifications"} ELSE {})
    \cup (IF n % ProgressEvery = 0 THEN {"progress"} ELSE {})

InitEngage ==
  /\ mpc = "validateConfig"
  /\ envOk \in BOOLEAN /\ storeUp \in BOOLEAN
  /\ useProxy \in BOOLEAN /\ apiKey \in BOOLEAN /\ feed \in {"mixed", "allLiked"}
  /\ postsToDo = 1 /\ cycles = 0 /\ browser = "none" /\ exitCode = "none"
  /\ sessions \in {{}, {StoredDoc}} /\ clock = 0
  /\ existingSession = NoSession /\ pageSession = NoPage /\ freshLogin = NoPage
  /\ trends = 0 /\ usedTopics = {} /\ postData = 0 /\ trace = <<>>
  /\ scrollAttempts = 0 /\ likedPostLinks = 0 /\ cancelAt = -1
  /\ passOps = {} /\ openBrowsers = 0
  /\ IdleRetry /\ IdleSubmit /\ IdleGen /\ IdleDiv /\ IdleFn

\* how a launch function can end: the browser and its page ready; puppeteer's
\* launch (or the proxy chain) raised; the browser started and a later call
\* on it raised; the tunnel test page of the proxied browser failed
LaunchSteps == {"ok", "noBrowser", "setupRaised"}
ProxyLaunchSteps == LaunchSteps \cup {"tunnelTest"}

\* launchBrowser: its catch block rethrows and closes nothing
launchBrowser(d) ==
  [ok |-> d = "ok", left |-> IF d = "noBrowser" THEN 0 ELSE 1]

\* launchBrowserWithProxy: browser.close() only where the tunnel test failed,
\* whose error message holds 'tunnel'; its outer catch closes the proxy chain
launchBrowserWithProxy(p) ==
  [ok |-> p = "ok", left |-> IF p \in {"ok", "setupRaised"} THEN 1 ELSE 0,
   tunnel |-> p = "tunnelTest"]

\* the launch block of automateTwitter: the proxied launch, the direct launch
\* of its tunnel handler, and the direct launch of the outer catch block;
\* left counts the browsers started and not closed
Launch(proxy, p, d1, d2) ==
  LET P == launchBrowserWithProxy(p)
      D1 == launchBrowser(d1)
      D2 == launchBrowser(d2)
  IN IF proxy /\ P.ok
       THEN [held |-> TRUE, useProxy |-> TRUE, left |-> P.left]
     ELSE IF proxy /\ ~P.tunnel
       THEN [held |-> D2.ok, useProxy |-> FALSE, left |-> P.left + D2.left]
     ELSE LET before == IF proxy THEN P.left ELSE 0
          IN IF D1.ok
               THEN [held |-> TRUE, useProxy |-> FALSE, left |-> before + D1.left]
               ELSE [held |-> D2.ok, useProxy |-> FALSE,
                     left |-> before + D1.left + D2.left]

\* what a function that navigates with safeNavigate inside its own try block
\* can come to: its result, or PROXY_TUNNEL_FAILED raised by safeNavigate
NavOutcomes(proxy) ==
  IF proxy THEN {"ok", "failed", "tunnel"} ELSE {"ok", "failed"}

\* applySessionCookies, validateSession and loginToTwitter catch whatever is
\* raised inside them, PROXY_TUNNEL_FAILED included, and return false
Returned(res) == res = "ok"

TunnelHandler_retry(message, proxy) == "login"

\* `catch (tunnelError)` around the authentication: the close, relaunch and
\* retry is taken for the message PROXY_TUNNEL_FAILED with the proxy in use,
\* anything else is thrown on to the catch block of automateTwitter
TunnelHandler(message, proxy) ==
  IF message = "PROXY_TUNNEL_FAILED" /\ proxy THEN "relaunch" ELSE "catch"

\* the proxy tests, which switch the proxy off when one fails, and the launch
\* of the browser; when no launch goes through automateTwitter rejects
EngLaunch ==
  /\ mpc = "launch"
  /\ \E testsPass \in BOOLEAN, p \in ProxyLaunchSteps, d1 \in LaunchSteps,
        d2 \in LaunchSteps :
       LET L == Launch(useProxy /\ testsPass, p, d1, d2)
       IN /\ useProxy' = L.useProxy
          /\ openBrowsers' = L.left
          /\ browser' = IF L.held THEN "open" ELSE browser
          /\ mpc' = IF L.held THEN "loadSession" ELSE "exited"
          /\ exitCode' = IF L.held THEN exitCode ELSE PlainExit
          /\ trace' = Append(trace, Ev("launch",
                        IF ~L.held THEN "failed"
                        ELSE IF L.useProxy THEN "proxied" ELSE "direct"))
  /\ UNCHANGED <<envOk, storeUp, postsToDo, cycles, sessions, clock,
                 existingSession, pageSession, freshLogin, trends, usedTopics,
                 postData, scrollAttempts, likedPostLinks, cancelAt, apiKey,
                 feed, passOps>>
  /\ UNCHANGED <<retryVars, submitVars, genVars, divVars, fnVars>>

\* applySessionCookies, and the fresh login when the cookies were not applied
EngApplyCookies ==
  /\ mpc = "applyCookies"
  /\ \E res \in NavOutcomes(useProxy) :
       /\ pageSession' =
            IF Returned(res)
              THEN [pageSession EXCEPT
                      !.cookies = cleanCookies(existingSession.doc.cookies),
                      !.localStorage = existingSession.doc.localStorage]
              ELSE pageSession
       /\ mpc' = IF Returned(res) THEN "validateSession" ELSE "login"
       /\ trace' = Append(trace, Ev("applyCookies", res))
  /\ UNCHANGED <<envOk, storeUp, postsToDo, cycles, browser, exitCode, sessions,
                 clock, existingSession, freshLogin, trends, usedTopics, postData>>
  /\ UNCHANGED <<retryVars, submitVars, genVars, divVars, restVars>>

\* validateSession
EngValidateSession ==
  \E res \in NavOutcomes(useProxy) :
    MainStep("validateSession", AfterValidate(Returned(res)),
             Ev("validateSession", res))

\* loginToTwitter and `if (!loginSuccess) throw new Error('Login failed')`
EngLogin ==
  /\ mpc = "login"
  /\ \E res \in NavOutcomes(useProxy), page \in LoginPages :
       /\ pageSession' = IF Returned(res) THEN page ELSE pageSession
       /\ freshLogin' = IF Returned(res) THEN page ELSE freshLogin
       /\ mpc' = IF Returned(res) THEN "extractSession"
                                  ELSE TunnelHandler("Login failed", useProxy)
       /\ trace' = Append(trace, Ev("login", res))
  /\ UNCHANGED <<envOk, storeUp, postsToDo, cycles, browser, exitCode, sessions,
                 clock, existingSession, trends, usedTopics, postData>>
  /\ UNCHANGED <<retryVars, submitVars, genVars, divVars, restVars>>

\* safeNavigate(home) of automateTwitter: what it raises goes to the catch block
EngGotoHome ==
  \E res \in NavOutcomes(useProxy) :
    MainStep("authDone", IF res = "ok" THEN "startLoop" ELSE "catch",
             Ev("gotoHome", res))

\* checkAndReplyToNotifications when the key is set, which never raises, then
\* scrollFeed() started in the background, the store connection closed, and
\* the promise that never resolves awaited
EngStartLoop == MainStep("startLoop", "scrollBy", Ev("scrollFeed", "started"))

\* scrollFeed: the top of `while (true)`: window.scrollBy, scrollAttempts++ and
\* the count of the tweets; both page calls stand outside every try block, so
\* when one raises scrollFeed rejects, the rejection is printed and the loop
\* is over while automateTwitter stays in its await
Scroll(max) ==
  /\ mpc = "scrollBy" /\ scrollAttempts < max
  /\ \E res \in {"ok", "scrollByRaised", "countRaised"} :
       /\ scrollAttempts' = IF res = "scrollByRaised" THEN scrollAttempts
                                                      ELSE scrollAttempts + 1
       /\ mpc' = IF res = "ok" THEN "like" ELSE "resident"
  /\ passOps' = {}
  /\ UNCHANGED <<runVars_butMpc, useProxy, likedPostLinks, cancelAt, apiKey,
                 feed, openBrowsers>>
  /\ UNCHANGED <<retryVars, submitVars, genVars, divVars, fnVars>>

EngScroll == Scroll(MaxScrolls)

\* the unliked like buttons in view when likeRandomPosts looks at the page
VisibleButtons(f) == IF f = "allLiked" THEN {0} ELSE 0..MaxButtons

\* what likeRandomPosts(page, 5) can return on such a page
LikeResults(f) ==
  { likeRandomPosts(v, LikePercentage, draw, fault, still, link) :
      v \in VisibleButtons(f), draw \in Draws, fault \in LikeFaults,
      still \in BOOLEAN, link \in BOOLEAN }

\* `const result = await likeRandomPosts(page, 5)`
EngLike ==
  /\ mpc = "like"
  /\ \E res \in LikeResults(feed) : likedPostLinks' = res.likedPostLinks
  /\ passOps' = passOps \cup {"like"}
  /\ mpc' = "appendCsv"
  /\ UNCHANGED <<runVars_butMpc, useProxy, scrollAttempts, cancelAt, apiKey,
                 feed, openBrowsers>>
  /\ UNCHANGED <<retryVars, submitVars, genVars, divVars, fnVars>>

\* the rest of the pass: appendCsvEntry for each liked post, its failure
\* swallowed; commentOnRandomPost and its row, the notification check and the
\* progress line on the passes where they are due
EngAppendCsv ==
  /\ mpc = "appendCsv"
  /\ \E csvOk \in BOOLEAN, commented \in BOOLEAN :
       csvRows' = csvRows
         \o (IF likedPostLinks > 0 /\ csvOk
               THEN <<[scroll_count |-> scrollAttempts, like_count |-> 1]>>
               ELSE <<>>)
         \o (IF "comment" \in DuePassOps(scrollAttempts, apiKey) /\ commented /\ csvOk
               THEN <<[scroll_count |-> scrollAttempts, like_count |-> 0]>>
               ELSE <<>>)
  /\ passOps' = passOps \cup DuePassOps(scrollAttempts, apiKey)
  /\ likedPostLinks' = 0
  /\ mpc' = "scrollBy"
  /\ UNCHANGED <<runVars_butMpc, useProxy, scrollAttempts, cancelAt, apiKey,
                 feed, openBrowsers>>
  /\ UNCHANGED <<maxRetries, attempt, rpc, retVal, calls, outcomes, contentLog,
                 errorLog, writeRejected, shadow, submitVars, genVars, divVars,
                 fnVars>>

\* the catch block of automateTwitter: the error is printed, the store
\* connection closed, the browser left open, and the process kept alive
EngCatch == MainStep("catch", "resident", Ev("catch", "printed"))

\* where the process is while it can be told to stop
Running == {"scrollBy", "like", "appendCsv", "resident"}

\* the stop of the process requested from outside (the stop endpoint of the
\* server, Ctrl+C): a signal on its way to the process
EngCancel ==
  /\ mpc \in Running /\ cancelAt = -1
  /\ cancelAt' = scrollAttempts
  /\ UNCHANGED <<runVars, useProxy, scrollAttempts, likedPostLinks, apiKey, feed,
                 passOps, openBrowsers>>
  /\ UNCHANGED <<retryVars, submitVars, genVars, divVars, fnVars>>

\* the signal delivered: the script installs no handler, the process ends
\* where it is; whether the browsers it started go down with it is not the
\* script's doing
EngTerminate ==
  /\ mpc \in Running /\ cancelAt >= 0
  /\ mpc' = "killed"
  /\ exitCode' = "signal"
  /\ \E gone \in BOOLEAN :
       /\ browser' = IF gone THEN "closed" ELSE browser
       /\ openBrowsers' = IF gone THEN 0 ELSE openBrowsers
  /\ UNCHANGED <<envOk, storeUp, postsToDo, cycles, sessions, clock,
                 existingSession, pageSession, freshLogin, trends, usedTopics,
                 postData, trace>>
  /\ UNCHANGED <<useProxy, scrollAttempts, likedPostLinks, cancelAt, apiKey, feed,
                 passOps>>
  /\ UNCHANGED <<retryVars, submitVars, genVars, divVars, fnVars>>

NextEngage ==
  \/ RunValidateConfig
  \/ RunConnect
  \/ EngLaunch
  \/ RunLoadSession
  \/ EngApplyCookies
  \/ EngValidateSession
  \/ EngLogin
  \/ RunExtractSession
  \/ EngGotoHome
  \/ EngStartLoop
  \/ EngScroll
  \/ EngLike
  \/ EngAppendCsv
  \/ EngCatch
  \/ EngCancel
  \/ EngTerminate

SpecEngage == InitEngage /\ [][NextEngage]_vars

\* ---------------------------------------------------------------------
\* SpecLoop: scrollFeed alone, from its call on, over a feed with nothing
\* left to like, far enough for every periodic step to come due.
\* ---------------------------------------------------------------------
InitLoop ==
  /\ mpc = "scrollBy"
  /\ envOk = TRUE /\ storeUp = TRUE
  /\ useProxy = FALSE /\ apiKey \in BOOLEAN /\ feed = "allLiked"
  /\ postsToDo = 1 /\ cycles = 0 /\ browser = "open" /\ exitCode = "none"
  /\ sessions = {StoredDoc} /\ clock = 0
  /\ existingSession = [found |-> TRUE, doc |-> StoredDoc]
  /\ pageSession = [NoPage EXCEPT !.cookies = cleanCookies(StoredDoc.cookies),
                                  !.localStorage = StoredDoc.localStorage]
  /\ freshLogin = NoPage
  /\ trends = 0 /\ usedTopics = {} /\ postData = 0
  /\ trace = <<Ev("validateConfig", "ok"), Ev("connect", "ok"),
               Ev("launch", "direct"), Ev("loadSession", "ok"),
               Ev("applyCookies", "ok"), Ev("validateSession", "ok"),
               Ev("gotoHome", "ok"), Ev("scrollFeed", "started")>>
  /\ scrollAttempts = 0 /\ likedPostLinks = 0 /\ cancelAt = -1
  /\ passOps = {} /\ openBrowsers = 1
  /\ IdleRetry /\ IdleSubmit /\ IdleGen /\ IdleDiv /\ IdleFn

LoopScroll == Scroll(MaxPasses)

NextLoop == LoopScroll \/ EngLike \/ EngAppendCsv

SpecLoop == InitLoop /\ [][NextLoop]_vars

\* ---------------------------------------------------------------------
\* SpecLike: one call of likeRandomPosts, for every number of unliked
\* buttons in view, percentage, random draw and place of an exception.
\* ---------------------------------------------------------------------
Percentages == {0, 5, 20, 100, 250}

InitLike ==
  /\ IdleRetry /\ IdleSubmit /\ IdleGen /\ IdleDiv /\ IdleRun /\ IdleEngage
  /\ IdleFn

LikeCall ==
  /\ ~likeArgs.called
  /\ \E v \in 0..MaxButtons, pct \in Percentages, draw \in Draws,
        fault \in LikeFaults, still \in BOOLEAN, link \in BOOLEAN :
       /\ likeArgs' = [visible |-> v, likePercentage |-> pct, draw |-> draw,
                       fault |-> fault, stillVisible |-> still,
                       hasLink |-> link, called |-> TRUE]
       /\ result' = likeRandomPosts(v, pct, draw, fault, still, link)
  /\ UNCHANGED <<retryVars, submitVars, genVars, divVars, runVars, engVars,
                 loginVars, trendVars, fn2Vars>>

NextLike == LikeCall

SpecLike == InitLike /\ [][NextLike]_vars

\* ---------------------------------------------------------------------
\* SpecLogin: one call of loginToTwitter.  A URL is the sequence of its
\* parts; the page text is the set of challenge phrases it contains.
\* ---------------------------------------------------------------------
Urls ==
  { <<"/home">>,
    <<"/i/flow", "/login">>,
    <<"/login", "/error">>,
    <<"/account/access">>,
    <<"/i/flow", "/login", "?redirect_after_login=", "/home">>,
    <<"/home", "?lang=", "en">> }

\* String.prototype.includes, for a part of the path
Includes(url, part) == \E i \in 1..Len(url) : url[i] = part

LoginVerdict_notLoginPath(url) == ~Includes(url, "/login")

\* `currentUrl.includes('/home') || !currentUrl.includes('/login')`
LoginVerdict(url) == Includes(url, "/home") \/ ~Includes(url, "/login")

Phrases == {"Enter your phone number", "unusual login activity", "Verify your identity"}

\* the test of the page text for a challenge phrase
ChallengeDetected(pageText) == \E ph \in Phrases : ph \in pageText

AfterChallengeWait_fatal(found) == IF found THEN "typeChallenge" ELSE "catch"

\* the wait for the challenge input is inside the inner try block, whose catch
\* block prints 'No verification needed' and lets the login go on
AfterChallengeWait(found) == IF found THEN "typeChallenge" ELSE "waitPassword"

InitLogin ==
  /\ IdleRetry /\ IdleSubmit /\ IdleGen /\ IdleDiv /\ IdleRun /\ IdleEngage
  /\ IdleLike /\ IdleTrends /\ IdleFn2
  /\ loginPc = "goto" /\ loginLog = <<>> /\ currentUrl = NoUrl
  /\ loginReturned = FALSE

\* a step of loginToTwitter in its outer try block: on an exception the outer
\* catch block returns false
LoginStep(at, op, results, next) ==
  /\ loginPc = at
  /\ \E res \in results :
       /\ loginLog' = Append(loginLog, Ev(op, res))
       /\ loginPc' = IF res = "ok" THEN next ELSE "catch"
  /\ UNCHANGED <<currentUrl, loginReturned>>
  /\ UNCHANGED <<retryVars, submitVars, genVars, divVars, runVars, engVars,
                 likeVars, trendVars, fn2Vars>>

LoginGoto == LoginStep("goto", "goto", {"ok", "timeout", "tunnel"}, "waitUsername")

LoginWaitUsername ==
  LoginStep("waitUsername", "waitUsername", {"ok", "timeout"}, "typeEmail")

LoginTypeEmail == LoginStep("typeEmail", "typeEmail", {"ok", "raised"}, "readText")

\* inner try block: document.body.innerText and the phrase test
LoginReadText ==
  /\ loginPc = "readText"
  /\ \/ \E pageText \in SUBSET Phrases :
          /\ loginLog' = Append(loginLog, [op |-> "readText", res |-> "ok",
                                           pageText |-> pageText])
          /\ loginPc' = IF ChallengeDetected(pageText) THEN "waitChallenge"
                                                       ELSE "waitPassword"
     \/ /\ loginLog' = Append(loginLog, Ev("readText", "raised"))
        /\ loginPc' = "waitPassword"
  /\ UNCHANGED <<currentUrl, loginReturned>>
  /\ UNCHANGED <<retryVars, submitVars, genVars, divVars, runVars, engVars,
                 likeVars, trendVars, fn2Vars>>

\* inner try block: waitForSelector('input[autocomplete="on"]', 5 s)
LoginWaitChallenge ==
  /\ loginPc = "waitChallenge"
  /\ \E found \in BOOLEAN :
       /\ loginLog' = Append(loginLog,
                        Ev("waitChallenge", IF found THEN "ok" ELSE "timeout"))
       /\ loginPc' = AfterChallengeWait(found)
  /\ UNCHANGED <<currentUrl, loginReturned>>
  /\ UNCHANGED <<retryVars, submitVars, genVars, divVars, runVars, engVars,
                 likeVars, trendVars, fn2Vars>>

\* inner try block: click, type the username, Enter
LoginTypeChallenge ==
  /\ loginPc = "typeChallenge"
  /\ \E res \in {"ok", "raised"} :
       loginLog' = Append(loginLog, Ev("typeChallenge", res))
  /\ loginPc' = "waitPassword"
  /\ UNCHANGED <<currentUrl, loginReturned>>
  /\ UNCHANGED <<retryVars, submitVars, genVars, divVars, runVars, engVars,
                 likeVars, trendVars, fn2Vars>>

LoginWaitPassword ==
  LoginStep("waitPassword", "waitPassword", {"ok", "timeout"}, "typePassword")

LoginTypePassword ==
  LoginStep("typePassword", "typePassword", {"ok", "raised"}, "readUrl")

\* page.url() and the verdict on it
LoginReadUrl ==
  /\ loginPc = "readUrl"
  /\ \E url \in Urls :
       /\ currentUrl' = url
       /\ loginReturned' = LoginVerdict(url)
       /\ loginLog' = Append(loginLog, Ev("readUrl", "ok"))
  /\ loginPc' = "done"
  /\ UNCHANGED <<retryVars, submitVars, genVars, divVars, runVars, engVars,
                 likeVars, trendVars, fn2Vars>>

\* the outer catch block: `return false`
LoginCatch ==
  /\ loginPc = "catch"
  /\ loginReturned' = FALSE
  /\ loginPc' = "done"
  /\ UNCHANGED <<loginLog, currentUrl>>
  /\ UNCHANGED <<retryVars, submitVars, genVars, divVars, runVars, engVars,
                 likeVars, trendVars, fn2Vars>>

NextLogin ==
  \/ LoginGoto \/ LoginWaitUsername \/ LoginTypeEmail \/ LoginReadText
  \/ LoginWaitChallenge \/ LoginTypeChallenge \/ LoginWaitPassword
  \/ LoginTypePassword \/ LoginReadUrl \/ LoginCatch

SpecLogin == InitLogin /\ [][NextLogin]_vars

\* ---------------------------------------------------------------------
\* SpecTrends: getTrendingTopicsWithContext called against one rendered
\* page.  A trend element is given by the trend text its spans yield, a
\* sequence of characters.
\* ---------------------------------------------------------------------
MaxCount == 15

\* distinct trend texts of three lower-case letters
Topic(i) ==
  <<Lower[((i \div 25) % 5) + 1], Lower[((i \div 5) % 5) + 1], Lower[(i % 5) + 1]>>

\* the same text with its first letter in upper case
Capital(t) == [t EXCEPT ![1] = Upper[CHOOSE j \in 1..Len(Lower) : Lower[j] = t[1]]]

\* a text of two characters, which `trendText.length > 2` rejects
ShortText == <<"a", "b">>

\* a page of n elements: distinct texts, but for a repetition of the first
\* text at `dup` (in the same or in the other case) and a short text at `short`
TrendPage(n, dup, sameCase, short) ==
  [i \in 1..n |->
     IF i = short THEN ShortText
     ELSE IF i = dup THEN (IF sameCase THEN Topic(1) ELSE Capital(Topic(1)))
     ELSE Topic(i)]

\* `if (trendText && trendText.length > 2) topics.push(...)`
Topics(page) == SelectSeq(page, LAMBDA t : Len(t) > 2)

RECURSIVE PushUnseen(_, _, _, _, _)
\* topics.forEach from element i on: keys[i] is the form in which topics[i] is
\* compared, seenTopics the keys met so far, uniqueTopics the elements pushed
PushUnseen(topics, keys, i, seenTopics, uniqueTopics) ==
  IF i > Len(topics) THEN uniqueTopics
  ELSE IF keys[i] \in seenTopics
    THEN PushUnseen(topics, keys, i + 1, seenTopics, uniqueTopics)
    ELSE PushUnseen(topics, keys, i + 1, seenTopics \cup {keys[i]},
                    Append(uniqueTopics, topics[i]))

UniqueTopics_exact(topics) == PushUnseen(topics, topics, 1, {}, <<>>)

\* uniqueTopics: the first element of each text, compared in lower case
UniqueTopics(topics) ==
  PushUnseen(topics, [i \in 1..Len(topics) |-> ToLower(topics[i])], 1, {}, <<>>)

\* Array.prototype.slice(0, n)
Slice(s, n) == SubSeq(s, 1, Min(n, Len(s)))

\* getTrendingTopicsWithContext: [] when the navigation or an evaluate raised
getTrendingTopicsWithContext(page, read) ==
  IF read THEN Slice(UniqueTopics(Topics(page)), MaxCount) ELSE <<>>

InitTrends ==
  /\ IdleRetry /\ IdleSubmit /\ IdleGen /\ IdleDiv /\ IdleRun /\ IdleEngage
  /\ IdleLike /\ IdleLogin /\ IdleFn2
  /\ \E n \in 0..MaxElements : \E dup \in 0..n, short \in 0..n, sameCase \in BOOLEAN :
       trendPage = TrendPage(n, dup, sameCase, short)
  /\ trendCalls = <<>>

TrendsCall ==
  /\ Len(trendCalls) < MaxCalls
  /\ \E read \in BOOLEAN :
       trendCalls' = Append(trendCalls,
                       [read |-> read,
                        out |-> getTrendingTopicsWithContext(trendPage, read)])
  /\ UNCHANGED trendPage
  /\ UNCHANGED <<retryVars, submitVars, genVars, divVars, runVars, engVars,
                 likeVars, loginVars, fn2Vars>>

NextTrends == TrendsCall

SpecTrends == InitTrends /\ [][NextTrends]_vars

\* ---------------------------------------------------------------------
\* SpecNotif: one call of checkAndReplyToNotifications.  The notifications
\* surface shows MaxNotifications items, numbered from 0; any other surface
\* shows none.
\* ---------------------------------------------------------------------
ReplyLimit == 3

\* the indices getReplyNotifications can return: those of the items that are
\* replies, in ascending order
RECURSIVE Ascending(_)
Ascending(S) ==
  IF S = {} THEN <<>>
  ELSE LET m == CHOOSE x \in S : \A y \in S : x <= y
       IN <<m>> \o Ascending(S \ {m})

NotificationsToReply_all(indices) == indices

\* `replyIndices.slice(0, 3)`
NotificationsToReply(indices) == Slice(indices, ReplyLimit)

\* `page.$$('[data-testid="notification"]').length` on a surface
NotificationsOn(s) == IF s = "notifications" THEN MaxNotifications ELSE 0

\* how a replyToNotification call whose index is in range can go: an exception
\* before the notification was clicked, an early `return { success: false }`
\* after the click, an exception after the click, the reply posted
ReplyCourses == {"raisedEarly", "gaveUp", "raisedLate", "posted"}

\* replyToNotification(page, index) called on surface s: its result and the
\* surface it leaves.  homeOk: whether the safeNavigate to home went through
replyToNotification(s, index, course, homeOk) ==
  IF index >= NotificationsOn(s)
    THEN [success |-> FALSE, error |-> "Notification index out of range", surface |-> s]
  ELSE IF course = "raisedEarly"
    THEN [success |-> FALSE, error |-> "raised",
          surface |-> IF homeOk THEN "home" ELSE s]
  ELSE IF course = "gaveUp"
    THEN [success |-> FALSE, error |-> "gave up", surface |-> "thread"]
  ELSE IF course = "raisedLate"
    THEN [success |-> FALSE, error |-> "raised",
          surface |-> IF homeOk THEN "home" ELSE "thread"]
  ELSE IF homeOk
    THEN [success |-> TRUE, error |-> "", surface |-> "home"]
    ELSE [success |-> FALSE, error |-> "PROXY_TUNNEL_FAILED", surface |-> "thread"]

InitNotif ==
  /\ IdleRetry /\ IdleSubmit /\ IdleGen /\ IdleDiv /\ IdleRun /\ IdleEngage
  /\ IdleLike /\ IdleLogin /\ IdleTrends /\ IdleServer
  /\ notifPc = "open" /\ surface = "home" /\ replyIndices = <<>>
  /\ notifLog = <<>> /\ repliedCount = 0 /\ notifResult = NoNotifResult

NotifFrame ==
  UNCHANGED <<retryVars, submitVars, genVars, divVars, runVars, engVars,
              likeVars, loginVars, trendVars, srvVars>>

\* openNotifications: false on any exception
NotifOpen ==
  /\ notifPc = "open"
  /\ \E opened \in BOOLEAN :
       /\ surface' = IF opened THEN "notifications" ELSE surface
       /\ notifPc' = IF opened THEN "getReplies" ELSE "done"
       /\ notifResult' = [checked |-> FALSE, replied |-> 0]
  /\ UNCHANGED <<replyIndices, notifLog, repliedCount>>
  /\ NotifFrame

\* getReplyNotifications ([] on any exception) and the branch on an empty list
NotifGetReplies ==
  /\ notifPc = "getReplies"
  /\ \E S \in SUBSET (0..(MaxNotifications - 1)) :
       /\ replyIndices' = Ascending(S)
       /\ notifPc' = IF S = {} THEN "goHome" ELSE "reply"
  /\ UNCHANGED <<surface, notifLog, repliedCount, notifResult>>
  /\ NotifFrame

\* one turn of `for (const index of notificationsToReply)`
NotifReply ==
  /\ notifPc = "reply"
  /\ LET todo == NotificationsToReply(replyIndices)
         k == Len(notifLog) + 1
     IN \E course \in ReplyCourses, homeOk \in BOOLEAN :
          LET r == replyToNotification(surface, todo[k], course, homeOk)
          IN /\ notifLog' = Append(notifLog, [index |-> todo[k], on |-> surface,
                                              success |-> r.success])
             /\ repliedCount' = IF r.success THEN repliedCount + 1 ELSE repliedCount
             /\ surface' = r.surface
             /\ notifPc' = IF k = Len(todo) THEN "goHome" ELSE "reply"
  /\ UNCHANGED <<replyIndices, notifResult>>
  /\ NotifFrame

\* the closing safeNavigate to home and the return; when it raises the catch
\* block returns { checked: false, replied: 0 }
NotifGoHome ==
  /\ notifPc = "goHome"
  /\ \E homeOk \in BOOLEAN, again \in BOOLEAN :
       /\ surface' = IF homeOk \/ again THEN "home" ELSE surface
       /\ notifResult' = IF homeOk THEN [checked |-> TRUE, replied |-> repliedCount]
                                   ELSE [checked |-> FALSE, replied |-> 0]
  /\ notifPc' = "done"
  /\ UNCHANGED <<replyIndices, notifLog, repliedCount>>
  /\ NotifFrame

NextNotif == NotifOpen \/ NotifGetReplies \/ NotifReply \/ NotifGoHome

SpecNotif == InitNotif /\ [][NextNotif]_vars

\* ---------------------------------------------------------------------
\* SpecServer: the control server's handling of the post automation on a
\* Unix-like host: start and stop requests, the 2 s timer of a stop, the
\* death of a child and its 'exit' event, in any interleaving.  A child is
\* "alive" until it dies, "dead" until the server has run its exit handler.
\* ---------------------------------------------------------------------
\* `postAutomationProcess && !postAutomationProcess.killed`
IsRunning(ref, ch) == ref # 0 /\ ~ch[ref].killed

Unborn == {c \in 1..MaxChildren : children[c].state = "unborn"}

\* ChildProcess.kill: the signal is sent while the handle exists, that is
\* until the exit handler has run, and sets .killed; SIGKILL ends the child
Kill(ch, c, signal) ==
  IF ch[c].state \in {"alive", "dead"}
    THEN [ch EXCEPT ![c].killed = TRUE,
                    ![c].state = IF signal = "SIGKILL" THEN "dead" ELSE @]
    ELSE ch

InitServer ==
  /\ IdleRetry /\ IdleSubmit /\ IdleGen /\ IdleDiv /\ IdleRun /\ IdleEngage
  /\ IdleLike /\ IdleLogin /\ IdleTrends /\ IdleNotif
  /\ postAutomationProcess = 0 /\ children = [c \in 1..MaxChildren |-> NoChild]
  /\ timers = {} /\ fired = {} /\ kills = {} /\ lastStatus = 0

SrvFrame ==
  UNCHANGED <<retryVars, submitVars, genVars, divVars, runVars, engVars,
              likeVars, loginVars, trendVars, notifVars>>

\* POST /api/automation/post/start refused: a child is referred to and not
\* killed, or the credentials are missing
SrvStartRefused ==
  /\ \E hasCredentials \in BOOLEAN :
       IsRunning(postAutomationProcess, children) \/ ~hasCredentials
  /\ lastStatus' = 400
  /\ UNCHANGED <<postAutomationProcess, children, timers, fired, kills>>
  /\ SrvFrame

\* POST /api/automation/post/start up to its 1 s wait: spawn and keep the
\* reference
SrvStart ==
  /\ ~IsRunning(postAutomationProcess, children)
  /\ Unborn # {}
  /\ LET c == CHOOSE x \in Unborn : \A y \in Unborn : x <= y
     IN /\ children' = [children EXCEPT ![c].state = "alive"]
        /\ postAutomationProcess' = c
  /\ UNCHANGED <<timers, fired, kills, lastStatus>>
  /\ SrvFrame

\* the start handler after its 1 s wait: it answers from the variable
\* postAutomationProcess as it is by then
SrvStartAnswer ==
  \E c \in 1..MaxChildren :
    /\ children[c].state # "unborn" /\ ~children[c].answered
    /\ children' = [children EXCEPT ![c].answered = TRUE]
    /\ lastStatus' = IF IsRunning(postAutomationProcess, children) THEN 200 ELSE 500
    /\ UNCHANGED <<postAutomationProcess, timers, fired, kills>>
    /\ SrvFrame

\* POST /api/automation/post/stop with a child running: SIGTERM, the timer
\* set, and the reference cleared at once
SrvStop ==
  /\ IsRunning(postAutomationProcess, children)
  /\ children' = Kill(children, postAutomationProcess, "SIGTERM")
  /\ timers' = timers \cup {postAutomationProcess}
  /\ postAutomationProcess' = 0
  /\ lastStatus' = 200
  /\ UNCHANGED <<fired, kills>>
  /\ SrvFrame

\* POST /api/automation/post/stop with nothing running
SrvStopIdle ==
  /\ ~IsRunning(postAutomationProcess, children)
  /\ lastStatus' = 200
  /\ UNCHANGED <<postAutomationProcess, children, timers, fired, kills>>
  /\ SrvFrame

\* the setTimeout callback of a stop: it reads the variable
\* postAutomationProcess as it is when the timer runs
SrvTimer ==
  \E c \in timers :
    /\ timers' = timers \ {c}
    /\ fired' = fired \cup {c}
    /\ IF IsRunning(postAutomationProcess, children)
         THEN /\ children' = Kill(children, postAutomationProcess, "SIGKILL")
              /\ kills' = kills \cup {[from |-> c, to |-> postAutomationProcess]}
         ELSE UNCHANGED <<children, kills>>
    /\ UNCHANGED <<postAutomationProcess, lastStatus>>
    /\ SrvFrame

\* a child ends: its script finished, or a signal ended it
ChildDies ==
  \E c \in 1..MaxChildren :
    /\ children[c].state = "alive"
    /\ children' = [children EXCEPT ![c].state = "dead"]
    /\ UNCHANGED <<postAutomationProcess, timers, fired, kills, lastStatus>>
    /\ SrvFrame

\* the 'exit' handler registered for a child: `postAutomationProcess = null`
SrvOnExit ==
  \E c \in 1..MaxChildren :
    /\ children[c].state = "dead"
    /\ children' = [children EXCEPT ![c].state = "reaped"]
    /\ postAutomationProcess' = 0
    /\ UNCHANGED <<timers, fired, kills, lastStatus>>
    /\ SrvFrame

NextServer ==
  \/ SrvStartRefused \/ SrvStart \/ SrvStartAnswer \/ SrvStop \/ SrvStopIdle \/ SrvTimer
  \/ ChildDies \/ SrvOnExit

SpecServer == InitServer /\ [][NextServer]_vars

\* ------------------------------------------------------------ C1 .. C4
FailureEntries(log) == {i \in 1..Len(log) : ~log[i].success}
SuccessEntries(log) == {i \in 1..Len(log) : log[i].success}

\* C1: when postTweetWithRetry has returned, exactly one terminal ContentLog
\* entry has been written (the store accepting the write): a success entry if it
\* returned true, a failure entry if it returned false.
C1_ExactlyOneTerminalEntry ==
  (rpc = "done" /\ ~writeRejected) =>
     /\ Len(contentLog) = 1
     /\ (contentLog[1].success <=> retVal = "true")

\* C2: postTweetWithRetry invokes the submit operation at most maxRetries times.
C2_AtMostMaxRetriesSubmits == calls <= maxRetries

C2_Witness ==
  rpc = "done" /\ maxRetries = ConfigMaxRetries /\ calls = maxRetries
  /\ outcomes = <<"false", "throws", "false">>

\* C3: if attempts 1..k-1 fail and attempt k <= maxRetries succeeds, the call
\* returns true right after attempt k with exactly k submit invocations, no
\* failure entry, and (the store accepting the write) exactly one success entry
\* whose retryCount is k.
C3_SuccessAtAttemptK ==
  LET k == Len(outcomes) IN
  (/\ k >= 1 /\ k <= maxRetries
   /\ outcomes[k] = "true"
   /\ \A i \in 1..(k - 1) : outcomes[i] \in {"false", "throws"}) =>
     /\ rpc = "done" /\ retVal = "true"
     /\ calls = k
     /\ FailureEntries(contentLog) = {} /\ errorLog = <<>>
     /\ Len(contentLog) <= 1
     /\ ~writeRejected =>
          contentLog = <<[success |-> TRUE, retryCount |-> k, postLength |-> postLen]>>

C3_Witness ==
  /\ maxRetries = ConfigMaxRetries
  /\ outcomes = <<"false", "false", "true">>
  /\ rpc = "done" /\ retVal = "true" /\ calls = 3
  /\ Len(contentLog) = 1 /\ contentLog[1].retryCount = 3

\* C4: replacing a "returns false" attempt by a "throws" attempt changes neither
\* the return value, nor the number of attempts, nor whether a terminal failure
\* entry is logged (shadow is the same call with every throw replaced by false).
C4_ThrowTreatedAsFalse ==
  (rpc = "done" /\ shadow.rpc = "done") =>
     /\ retVal = shadow.retVal
     /\ calls = shadow.calls
     /\ (FailureEntries(contentLog) = {} <=> FailureEntries(shadow.logs.content) = {})

\* ------------------------------------------------------------ C5 .. C7
\* C5: the click methods are tried strictly in the order native, script-injected,
\* coordinate; every method tried before the last one tried did not go through
\* and the first one that goes through is the accepted one, nothing being tried
\* after it; the submit reaches verification only through a method that went
\* through, and fails for its clicks only after all three were tried in vain.
C5_ClickMethodsInOrder ==
  LET n == Len(clickTried) IN
  /\ n <= Len(ClickOrder)
  /\ \A i \in 1..n : clickTried[i].method = ClickOrder[i]
  /\ \A i \in 1..(n - 1) : ~clickTried[i].ok
  /\ clickedVia /= "none" <=> (n >= 1 /\ clickTried[n].ok)
  /\ clickedVia /= "none" => clickedVia = clickTried[n].method
  /\ (spc = "verify" \/ verified /= "none") => clickedVia /= "none"
  /\ failedAt = "click" =>
       (n = Len(ClickOrder) /\ clickedVia = "none" /\ sret /= "true")
  /\ (spc \in {"evaluate", "coordinate", "catch"} /\ failedAt \in {"none", "click"})
       => clickedVia = "none"

C5_Witness ==
  /\ spc = "ret" /\ sret = "true"
  /\ clickTried = <<[method |-> "native", ok |-> FALSE],
                    [method |-> "evaluate", ok |-> TRUE]>>
  /\ clickedVia = "evaluate"

\* C6: whenever a click of the submit went through, the submit returns true,
\* whatever the verification found.
C6_ClickSuccessIsSuccess ==
  (spc = "ret" /\ clickedVia /= "none") => sret = "true"

\* C7: the submit never raises to its caller; once any of its steps raised, the
\* screenshot was attempted (saved, or its failure swallowed) and the submit
\* returned false.
C7_SubmitNeverRaises ==
  /\ sret /= "raised"
  /\ (spc \in {"ret", "idle"} /\ failedAt /= "none") =>
        (sret = "false" /\ shot \in {"saved", "failed"})
  /\ \A i \in 1..Len(outcomes) : outcomes[i] /= "throws"

C7_Witness ==
  spc = "ret" /\ failedAt = "click" /\ shot = "failed" /\ sret = "false"

\* ------------------------------------------------------------ C8
\* C8 as stated: a generated text never exceeds 280 characters, and whenever the
\* raw model output exceeds 280 characters the text is the first 277 characters
\* of that output followed by "...".
C8_RawOverLimitTruncated ==
  (genFn /= "none" /\ ~genOut.isNull) =>
     /\ Len(genOut.text) <= 280
     /\ Len(response.content) > 280 =>
          genOut.text = SubSeq(response.content, 1, 277) \o <<".", ".", ".">>

\* the answer without its surrounding whitespace and, for a post, without one
\* leading and one trailing quote, written out from the answer's shape
CleanedAnswer ==
  LET sh == response.shape
      less(k) == IF genFn = "post" /\ k > 0 THEN k - 1 ELSE k
  IN IF sh.n = 0
       THEN Rep(sh.qc, less(less(sh.lq + sh.tq)))
       ELSE Rep(sh.qc, less(sh.lq)) \o Body(sh.n) \o Rep(sh.qc, less(sh.tq))

\* C8 amended: a generated text never exceeds 280 characters; whenever the model
\* output, once trimmed of surrounding whitespace and (for a post) stripped of
\* one leading and one trailing quote, exceeds 280 characters, the text is the
\* first 277 characters of that cleaned output followed by "...".
C8_CleanedOverLimitTruncated ==
  (genFn /= "none" /\ ~genOut.isNull) =>
     /\ Len(genOut.text) <= 280
     /\ Len(CleanedAnswer) > 280 =>
          genOut.text = SubSeq(CleanedAnswer, 1, 277) \o <<".", ".", ".">>

C8_Witness ==
  /\ genFn = "post" /\ ~genOut.isNull
  /\ response.shape.lq = 1 /\ response.shape.lw = 1
  /\ Len(CleanedAnswer) = 281
  /\ Len(genOut.text) = 280
  /\ genOut.text /= SubSeq(response.content, 1, 277) \o <<".", ".", ".">>

\* ------------------------------------------------------------ C9, C10
\* the successful documents of the last 24 hours
InWindow == {d \in DOMAIN history : d.age <= 24 /\ d.success}
InWindowCount == BagSize([d \in InWindow |-> history[d]])
SameIgnoringCase(a, b) == ToLower(a) = ToLower(b)

\* C9 as stated: the guard returns true when no successful entry of the last 24
\* hours exists, and false whenever the candidate equals, ignoring case, the text
\* of some successful entry of the last 24 hours, however many there are.
C9_IdenticalInWindowRejected ==
  (divOut /= "none" /\ lookupOk) =>
     /\ InWindow = {} => divOut = "true"
     /\ (\E d \in InWindow : SameIgnoringCase(d.text, newPost)) => divOut = "false"

\* C9 amended: the guard returns true when no successful entry of the last 24
\* hours exists, and false whenever the candidate equals, ignoring case, the text
\* of one of the at most 20 such entries the lookup returned; so it does
\* whenever the window holds at most 20 successful entries, one of them equal.
C9_IdenticalRetrievedRejected ==
  (divOut /= "none" /\ lookupOk) =>
     /\ InWindow = {} => divOut = "true"
     /\ (\E d \in DOMAIN recentPosts : SameIgnoringCase(d.text, newPost))
          => divOut = "false"
     /\ (InWindowCount <= 20 /\ \E d \in InWindow : SameIgnoringCase(d.text, newPost))
          => divOut = "false"

C9_Witness ==
  /\ divOut = "false" /\ lookupOk
  /\ newPost = <<"a", "b", "c", "d">>
  /\ InWindowCount = 20
  /\ \E d \in InWindow : d.text = <<"A", "B", "c", "d">> /\ d.age = 24

\* C10: when the history lookup raises, the guard returns true and raises nothing.
C10_LookupFailureFailsOpen ==
  (divOut /= "none" /\ ~lookupOk) => divOut = "true"

C10_Witness ==
  /\ divOut = "true" /\ ~lookupOk
  /\ \E d \in InWindow : d.text = newPost

\* ------------------------------------------------------------ C13
\* the saves of the account that the store accepted, in order
AcceptedSaves(email) ==
  SelectSeq(trace, LAMBDA e : e.op = "save" /\ e.email = email /\ e.ok)

\* C13: after any sequence of session saves the store holds at most one Session
\* document per account, and a lookup that resolves returns the cookies and the
\* storage snapshots of the most recent accepted save of that account, and
\* nothing when there was none.
C13_UpsertKeepsLatest ==
  /\ \A a \in Accounts : Cardinality({d \in sessions : d.accountEmail = a}) <= 1
  /\ (trace /= <<>> /\ trace[Len(trace)].op = "load" /\ trace[Len(trace)].ok) =>
       LET a == trace[Len(trace)].email
           saved == AcceptedSaves(a)
       IN IF saved = <<>>
            THEN ~existingSession.found
            ELSE /\ existingSession.found
                 /\ existingSession.doc.accountEmail = a
                 /\ existingSession.doc.cookies = saved[Len(saved)].fields.cookies
                 /\ existingSession.doc.localStorage
                      = saved[Len(saved)].fields.localStorage
                 /\ existingSession.doc.sessionStorage
                      = saved[Len(saved)].fields.sessionStorage

C13_Witness ==
  /\ Len(trace) = 4
  /\ trace[1].op = "save" /\ trace[1].ok /\ trace[1].email = "acct1"
  /\ trace[2].op = "save" /\ trace[2].ok /\ trace[2].email = "acct1"
  /\ trace[2].fields /= trace[1].fields
  /\ trace[3].op = "save" /\ ~trace[3].ok /\ trace[3].email = "acct1"
  /\ trace[3].fields = trace[1].fields
  /\ trace[4].op = "load" /\ trace[4].ok /\ trace[4].email = "acct1"
  /\ existingSession.found
  /\ existingSession.doc.cookies = trace[2].fields.cookies

\* ------------------------------------------------------------ C11, C12
Positions(op) == {i \in 1..Len(trace) : trace[i].op = op}
Happened(op, res) == \E i \in 1..Len(trace) : trace[i] = [op |-> op, res |-> res]
FirstOf(S) == CHOOSE i \in S : \A j \in S : i <= j

\* C11: when trend discovery returns an empty list, no generation call is made,
\* the submit is never invoked and no ContentLog entry is written.
C11_EmptyTrendsAbort ==
  Happened("discover", "empty") =>
     /\ Positions("generate") = {} /\ Positions("submit") = {}
     /\ calls = 0 /\ contentLog = <<>>

C11_Witness ==
  /\ mpc = "exited" /\ browser = "closed"
  /\ Happened("discover", "empty") /\ Happened("errorRecord", "ok")
  /\ Len(errorLog) = 1 /\ calls = 0

\* C12: a second generation call happens exactly when the first returned
\* content and the diversity guard rejected it; there are never more than two;
\* when the first returns null there is no second call and no submit.
C12_SecondGenerationIffRejected ==
  LET gens == Positions("generate") IN
  /\ Cardinality(gens) <= 2
  /\ Cardinality(gens) = 2 =>
       /\ trace[FirstOf(gens)].res = "content"
       /\ \E d \in Positions("diversity") :
            trace[d].res = "similar" /\ FirstOf(gens) < d
            /\ \A g \in gens \ {FirstOf(gens)} : d < g
  /\ Happened("diversity", "similar") => (Cardinality(gens) = 2 \/ mpc = "regenerate")
  /\ (gens /= {} /\ trace[FirstOf(gens)].res = "null") =>
       (Cardinality(gens) = 1 /\ Positions("submit") = {} /\ calls = 0)

C12_Witness ==
  /\ mpc = "exited" /\ trends >= 2
  /\ Happened("generate", "null")
  /\ Cardinality(Positions("generate")) = 1
  /\ Cardinality(usedTopics) = 1
  /\ calls = 0

\* ------------------------------------------------------------ C14
AuthCompleted == mpc \notin {"validateConfig", "connect", "launch", "loadSession",
                             "applyCookies", "validateSession", "login",
                             "extractSession", "store", "idle"}
HoldsFreshSession ==
  \E d \in sessions :
    /\ d.accountEmail = ConfigEmail
    /\ d.cookies = freshLogin.cookies \ {"noValue"}
    /\ d.localStorage = freshLogin.localStorage
    /\ d.sessionStorage = freshLogin.sessionStorage

BrowserOps == {"launch", "applyCookies", "validateSession", "login",
               "extractSession", "gotoHome", "scroll", "discover", "sample",
               "submit", "like", "comment", "notifications"}

\* C18: on a setup failure (a required variable missing, or the store out of
\* reach) the run performs no browser action and the process exits non-zero.
C18_SetupFailureExitsNonZero ==
  (mpc = "exited" /\ (~envOk \/ ~storeUp)) =>
     /\ \A i \in 1..Len(trace) : trace[i].op \notin BrowserOps
     /\ browser = "none"
     /\ exitCode \notin {"none", "0"}

\* C19: a process started with POSTS_TO_DO = N that was not aborted has carried
\* through N generate-and-post cycles when it exits.
C19_RunsRequestedCycles ==
  (mpc = "exited" /\ Positions("summary") /= {}) => cycles = postsToDo

\* C20: no generation call starts before trend discovery completed, no submit
\* starts before the generation and the diversity check completed, and the
\* terminal log entry is written before postTweetWithRetry returns to main.
C20_StepsInProgramOrder ==
  /\ \A g \in Positions("generate") :
       \E d \in Positions("discover") : d < g /\ trace[d].res = "ok"
  /\ \A u \in Positions("submit") :
       /\ \E g \in Positions("generate") : g < u /\ trace[g].res = "content"
       /\ \E d \in Positions("diversity") : d < u
       /\ \A x \in Positions("generate") \cup Positions("diversity")
                     \cup Positions("discover") : x < u
  /\ \A l \in Positions("contentLog") :
       /\ \E u \in Positions("submit") : u < l
       /\ \A r \in Positions("retryReturn") \cup Positions("summary") : l < r
  /\ Len(contentLog) = Cardinality(Positions("contentLog"))

C20_Witness ==
  /\ mpc = "exited" /\ retVal = "true"
  /\ Happened("diversity", "similar")
  /\ Cardinality(Positions("generate")) = 2
  /\ Cardinality(Positions("submit")) = 3
  /\ Len(contentLog) = 1 /\ contentLog[1].retryCount = 3

\* ------------------------------------------------------------ C15, C16, C17
Ended == mpc \in {"exited", "resident", "killed"}
ActingOps == {"scroll", "discover", "generate", "like", "comment", "submit"}

\* C15: when the interactive login does not reach the authenticated state, no
\* feed scroll, trend discovery, generation, like, comment or submit happens
\* afterwards, and an error record has been persisted when the run has ended.
C15_LoginFailureAbortsAndLogs ==
  \A l \in Positions("login") :
    trace[l].res /= "ok" =>
      /\ \A i \in (l + 1)..Len(trace) : trace[i].op \notin ActingOps
      /\ scrollAttempts = 0 /\ calls = 0 /\ csvRows = <<>>
      /\ Ended => (Happened("errorRecord", "ok") /\ errorLog /= <<>>)

\* C16: a proxy tunnel failure during a navigation of the authentication phase,
\* the proxy being in use, is followed at once by the close of the proxied
\* browser and the relaunch on a direct connection, the authentication being
\* retried there; it is not fatal by itself.
C16_TunnelFailureRetriedDirect ==
  \A i \in 1..Len(trace) :
    (trace[i].op \in {"applyCookies", "validateSession", "login"}
       /\ trace[i].res = "tunnel") =>
      /\ i < Len(trace) => trace[i + 1] = Ev("relaunch", "direct")
      /\ i = Len(trace) => mpc \notin {"catch", "resident", "killed"}

\* C17: once the stop was requested no further scroll pass starts, and when the
\* process has ended the browser is closed and every like that was clicked has
\* its row in the activity log.
C17_CancellationStopsAtBoundary ==
  cancelAt >= 0 =>
    /\ scrollAttempts = cancelAt
    /\ mpc = "killed" => (browser = "closed" /\ likedPostLinks = 0)

\* ------------------------------------------------------------ C21
\* a pass of scrollFeed has run to its end
PassComplete == mpc = "scrollBy" /\ scrollAttempts >= 1

\* C21 as stated: on every pass n >= 1 a like attempt is made, a comment attempt
\* exactly when 20 divides n, a notification re-check exactly when 50 divides n,
\* and a progress line exactly when 5 divides n.
C21_PeriodicStepsOnSchedule ==
  PassComplete =>
     /\ "like" \in passOps
     /\ "comment" \in passOps <=> scrollAttempts % 20 = 0
     /\ "notifications" \in passOps <=> scrollAttempts % 50 = 0
     /\ "progress" \in passOps <=> scrollAttempts % 5 = 0

\* C21 amended: on every pass n >= 1 that runs to its end a like attempt is made
\* and a progress line is written exactly when 5 divides n; a comment attempt is
\* made exactly when 20 divides n and the text-generation key is configured, a
\* notification re-check exactly when 50 divides n and the key is configured.
C21_PeriodicStepsWhenKeySet ==
  PassComplete =>
     /\ "like" \in passOps
     /\ "comment" \in passOps <=> (scrollAttempts % 20 = 0 /\ apiKey)
     /\ "notifications" \in passOps <=> (scrollAttempts % 50 = 0 /\ apiKey)
     /\ "progress" \in passOps <=> scrollAttempts % 5 = 0

C21_Witness ==
  /\ PassComplete /\ scrollAttempts = 100 /\ apiKey
  /\ passOps = {"like", "comment", "notifications", "progress"}
  /\ \E i \in 1..Len(csvRows) : csvRows[i].scroll_count = 40

\* ------------------------------------------------------------ C22
\* C22: the engagement loop has no termination of its own: while the process is
\* alive and not cancelled, the loop once started is always inside a pass or
\* about to start the next one; no failure inside a pass stops it while the
\* process stays resident.
C22_LoopNeverStops ==
  (Happened("scrollFeed", "started") /\ cancelAt = -1 /\ exitCode = "none")
     => mpc \in {"scrollBy", "like", "appendCsv"}

C23_WitnessError ==
  /\ likeArgs.called /\ likeArgs.visible = MaxButtons
  /\ likeArgs.likePercentage = 100 /\ likeArgs.draw < LuckHigh
  /\ likeArgs.fault = "button" /\ result.liked = 0 /\ ~result.error

\* ------------------------------------------------------------ C30
\* C30: at every point of a continuous-mode run at most one browser launched by
\* the run is open: a browser started on the proxy path that failed has been
\* closed before the direct browser is launched.
C30_AtMostOneBrowserOpen == openBrowsers <= 1

\* ------------------------------------------------------------ C25
\* C25: the authentication step reports success, and the run goes on to the
\* feed, only if the stored session passed the validity probe or an interactive
\* login succeeded in this run; when the cookies of a stored session cannot be
\* applied a fresh login is performed first.
C25_SuccessOnlyAfterProbeOrLogin ==
  mpc = "authDone" =>
     Happened("validateSession", "ok") \/ Happened("login", "ok")

C26_WitnessProbeFailed ==
  /\ Happened("validateSession", "failed")
  /\ Happened("login", "ok")
  /\ mpc = "authDone"

\* ------------------------------------------------------------ C27
\* C27: a run that reuses the stored session (the validity probe passes) never
\* writes the Session record: the stored cookies, storage snapshots and
\* updatedAt of the account stay as they were when the run started.
C27_ReuseNeverWritesSession ==
  Happened("validateSession", "ok") =>
     /\ sessions = {StoredDoc}
     /\ Positions("extractSession") = {}
     /\ Positions("login") = {}

C27_Witness ==
  /\ Happened("validateSession", "ok")
  /\ Ended
  /\ sessions = {StoredDoc}

\* ------------------------------------------------------------ C28, C29
LoginDone == loginPc = "done"
Logged(op, res) == \E i \in 1..Len(loginLog) : loginLog[i] = Ev(op, res)

\* C28: the interactive login returns success if and only if every step up to
\* the reading of the URL completed and the resulting URL is not the login
\* path: a final URL that contains the login path is never reported as success.
C28_SuccessIffNotLoginPath ==
  LoginDone =>
     (loginReturned <=> (Logged("readUrl", "ok") /\ ~Includes(currentUrl, "/login")))

\* C29: any navigation or selector-wait timeout during the interactive login,
\* the wait for the challenge input included, makes the attempt fail: no later
\* step of the login is executed and the result is failure.
C29_TimeoutEndsLogin ==
  \A i \in 1..Len(loginLog) :
     loginLog[i].res = "timeout" =>
        /\ i = Len(loginLog)
        /\ loginPc \in {"catch", "done"}
        /\ ~loginReturned

\* ------------------------------------------------------------ C24
TopicSet(list) == {list[i] : i \in 1..Len(list)}

C31_OnePermalinkPerLike ==
  likeArgs.called => result.likedPostLinks = result.liked

\* ------------------------------------------------------------ C32, C33
\* C32: one notification pass attempts a reply for at most the first 3 reply
\* notifications found, so its replied count is between 0 and 3, and it always
\* returns a result.
C32_AtMostThreeReplies ==
  /\ Len(notifLog) <= 3
  /\ \A k \in 1..Len(notifLog) : notifLog[k].index = replyIndices[k]
  /\ repliedCount \in 0..3 /\ repliedCount <= Len(notifLog)
  /\ notifResult.replied \in 0..3
  /\ notifPc = "done" =>
        \/ notifResult = [checked |-> TRUE, replied |-> repliedCount]
        \/ notifResult = [checked |-> FALSE, replied |-> 0]

C32_Witness ==
  /\ notifPc = "done" /\ Len(replyIndices) = MaxNotifications
  /\ Len(notifLog) = 3 /\ notifResult.checked

\* C33: within one notification pass every replyToNotification(index) call is
\* made while the browser is on the notifications surface, the second and the
\* third call of the pass included.
C33_RepliesOnNotificationsSurface ==
  \A k \in 1..Len(notifLog) : notifLog[k].on = "notifications"

\* ------------------------------------------------------------ C34
\* C34: topic selection never returns a used topic while an unused candidate
\* exists: with two or more candidates discovered the topic chosen for the
\* diversity regeneration differs from the topic chosen first; with every
\* candidate used the selection falls back to a candidate of the full list and
\* the run goes on without raising.
C34_RegenerationTakesUnusedTopic ==
  /\ usedTopics \subseteq 1..trends
  /\ Cardinality(Positions("select")) <= 2
  /\ Cardinality(Positions("select")) = 2 =>
        /\ Cardinality(usedTopics) = Min(2, trends)
        /\ mpc \in {"post", "summary", "finally", "exited"}
        /\ Positions("errorRecord") = {}

C34_Witness ==
  /\ trends >= 2 /\ Cardinality(Positions("select")) = 2
  /\ Cardinality(usedTopics) = 2 /\ Happened("diversity", "similar")
  /\ mpc = "exited"

C34_WitnessExhausted ==
  /\ trends = 1 /\ Cardinality(Positions("select")) = 2
  /\ usedTopics = {1} /\ mpc = "exited"

\* ------------------------------------------------------------ C35
\* C35: every text handed to postTweetWithRetry in a single-cycle run has been
\* accepted by checkContentDiversity (or the check failed open): a text the
\* check rejected is never submitted, and a regenerated text is submitted only
\* after being checked.
C35_SubmittedTextPassedGuard ==
  mpc = "post" =>
     /\ Happened("diversity", "diverse")
     /\ \A g \in Positions("generate") : \E d \in Positions("diversity") : g < d

\* ------------------------------------------------------------ C36
Launched == Happened("launch", "ok")

ClosedAtExit ==
  (mpc = "exited" /\ Launched) =>
     /\ browser = "closed"
     /\ Len(trace) >= 2
     /\ trace[Len(trace) - 1] = Ev("close", "open")
     /\ trace[Len(trace)] = Ev("disconnect", "ok")

C36_WitnessExhausted ==
  /\ mpc = "exited" /\ Launched /\ browser = "closed"
  /\ Happened("retryReturn", "false") /\ Happened("disconnect", "ok")

\* ------------------------------------------------------------ C37, C38, C39
Alive == {c \in 1..MaxChildren : children[c].state = "alive"}
Born == {c \in 1..MaxChildren : children[c].state # "unborn"}

\* C37: the control server keeps at most one child of a kind alive at any time,
\* under every interleaving of start requests, stop requests and exit events:
\* a start request while a child is alive spawns nothing.
C37_AtMostOneChildAlive == Cardinality(Alive) <= 1

\* C38: after a stop request the child is sent SIGTERM and, if it is still
\* running when the 2 s timer runs, that same child is force-killed, so a
\* stopped child whose timer has run is no longer alive.
C38_StoppedChildForceKilled ==
  \A c \in fired : children[c].state # "alive"

\* C39: the delayed SIGKILL of a stop request is never delivered to a child
\* other than the one that stop targeted, and the exit event of an earlier child
\* never clears the reference to a later child: the latest child, while alive
\* and not stopped, is the one the server refers to.
C39_OldChildNeverAffectsNewer ==
  /\ \A k \in kills : k.from = k.to
  /\ \A c \in Alive :
        ((\A d \in Born : d <= c) /\ ~children[c].killed)
           => postAutomationProcess = c

====
